---------------------------- MODULE Spec2Model ----------------------------
(***************************************************************************)
(* PathoSaathi multi-tenant backend: identifier counters, tenant prefixes  *)
(* and domain-bound authentication, modelled from the TypeScript sources.  *)
(*                                                                         *)
(* Strings whose characters matter (host names, company names, ObjectIds,  *)
(* tenant prefixes) are sequences of one-character strings, so that        *)
(* toLowerCase, toUpperCase, trim, split, replace and substring are        *)
(* computed character by character as the code computes them.              *)
(***************************************************************************)
EXTENDS Integers, Sequences, FiniteSets, TLC

VARIABLES
    (* tenant prefixes *)
    partnerDocs,    \* Partner documents: slot -> [companyName, _id]
    tenantOf,       \* slot -> tenant prefix returned by createPartnerTenant
    modelCache,     \* ModelFactory.modelCache keys (collection names)
    (* identifier counters *)
    now,            \* wall clock (UTC), in hours since 2024-12-30T00:00Z
    tz,             \* the server's timezone offset from UTC, in hours
    configs,        \* IdentifierConfigManager.configs: tenant -> model -> config
    counters,       \* IdentifierCounter rows: <<tenant, model, resetKey>> -> row
    calls,          \* getNextIdentifier calls in flight, one per caller
    log,            \* history of the counter rows: values handed out, resets, deletions
    ncalls,         \* number of getNextIdentifier calls started
    (* authentication *)
    dbUser,         \* the id of the user document stored in PS_ROOT_User
    user,           \* the mutable fields of that document
    partnerActive,  \* Partner.isActive, per partner
    tokens,         \* signed tokens handed to clients
    nextSession,    \* source of fresh ObjectIds for sessions
    res,            \* outcome of the last request
    (* tenant resolution *)
    partnerIsActive, \* Partner.isActive of the partners hostnames belong to
    brandingDocs,   \* the Branding documents that exist
    tenantReq,      \* the request resolveTenant is working on
    (* model factory *)
    mongooseModels, \* mongoose.models: the models registered with the ORM
    cachedModels,   \* ModelFactory.modelCache: cache key -> model handle
    registrations,  \* history: the registration calls made, per name
    handed,         \* history: the handles the getters returned
    factoryFailed,  \* history: some getter threw
    (* persisted identifier configuration *)
    cfgDoc,         \* PartnerIdentifierConfiguration.configurations, per tenant
    cfgCache,       \* DatabaseIdentifierConfigManager.cache and cacheTimestamps
    cfgCalls,       \* calls of the manager in flight, one per caller
    cfgWrites,      \* number of setModelConfig and applyTemplate calls completed
    cfgRes,         \* history: what the last getConfig returned
    issued,         \* history: the identifiers generateIdentifier returned
    (* partner documents and the shared default configuration *)
    partnerDoc,     \* the fields of one Partner document that save() reads and writes
    saveLog,        \* history: what each save of that document left behind
    defaultConfig,  \* the DEFAULT_IDENTIFIER_CONFIG object of config/identifier.config.ts
    (* logins in flight *)
    logins,         \* per caller: the user document its login request has read
    (* documents created through tenant handles *)
    schemaDefaults, \* per shared schema: the default of its tenantPrefix path
    created,        \* history: the documents saved, and through whose handle
    (* branding *)
    brandings,      \* the Branding documents: id -> [name, theme, metadata]
    partnerBranding \* Partner.branding, per partner: the id of a Branding document

prefixVars  == <<partnerDocs, tenantOf, modelCache>>
counterVars == <<now, tz, configs, counters, calls, log, ncalls>>
authVars    == <<dbUser, user, partnerActive, tokens, nextSession, res>>
tenantVars  == <<partnerIsActive, brandingDocs, tenantReq>>
factoryVars == <<mongooseModels, cachedModels, registrations, handed, factoryFailed>>
cfgVars     == <<cfgDoc, cfgCache, cfgCalls, cfgWrites, cfgRes, issued>>
saveVars    == <<partnerDoc, saveLog, defaultConfig>>
createVars  == <<schemaDefaults, created>>
brandVars   == <<brandings, partnerBranding>>
docVars     == <<saveVars, logins, createVars, brandVars>>
extVars     == <<tenantVars, factoryVars, cfgVars, docVars>>
notTenantVars == <<prefixVars, counterVars, authVars, factoryVars, cfgVars, docVars>>
notFactoryVars == <<prefixVars, counterVars, authVars, tenantVars, cfgVars, docVars>>
vars        == <<partnerDocs, tenantOf, modelCache, now, tz, configs, counters, calls,
                 log, ncalls, dbUser, user, partnerActive, tokens,
                 nextSession, res, partnerIsActive, brandingDocs, tenantReq,
                 mongooseModels, cachedModels, registrations, handed,
                 factoryFailed, cfgDoc, cfgCache, cfgCalls, cfgWrites, cfgRes,
                 issued, partnerDoc, saveLog, defaultConfig, logins,
                 schemaDefaults, created, brandings, partnerBranding>>

None == "none"     \* null / undefined
NoString == <<>>   \* null / undefined / "" where a string is expected
NoDate == -1       \* null / undefined where a Date is expected
NoSession == 0     \* undefined where a session id is expected

-----------------------------------------------------------------------------
(* Character-level string functions of the JavaScript runtime *)

UpperLetters ==
    <<"A", "B", "C", "D", "E", "F", "G", "H", "I", "J", "K", "L", "M",
      "N", "O", "P", "Q", "R", "S", "T", "U", "V", "W", "X", "Y", "Z">>

LowerLetters ==
    <<"a", "b", "c", "d", "e", "f", "g", "h", "i", "j", "k", "l", "m",
      "n", "o", "p", "q", "r", "s", "t", "u", "v", "w", "x", "y", "z">>

Digits == <<"0", "1", "2", "3", "4", "5", "6", "7", "8", "9">>

IsUpper(c) == \E i \in 1..26 : UpperLetters[i] = c
IsLower(c) == \E i \in 1..26 : LowerLetters[i] = c
IsDigit(c) == \E i \in 1..10 : Digits[i] = c
IsAlnum(c) == IsUpper(c) \/ IsLower(c) \/ IsDigit(c)

ToLowerChar(c) ==
    IF IsUpper(c)
    THEN LowerLetters[CHOOSE i \in 1..26 : UpperLetters[i] = c]
    ELSE c

ToUpperChar(c) ==
    IF IsLower(c)
    THEN UpperLetters[CHOOSE i \in 1..26 : LowerLetters[i] = c]
    ELSE c

\* String.prototype.toLowerCase
ToLowerCase(s) == [i \in 1..Len(s) |-> ToLowerChar(s[i])]

\* String.prototype.toUpperCase
ToUpperCase(s) == [i \in 1..Len(s) |-> ToUpperChar(s[i])]

\* String.prototype.substring(0, n)
Substring0(s, n) == IF Len(s) <= n THEN s ELSE SubSeq(s, 1, n)

\* String.prototype.slice(-n)
SliceLast(s, n) == IF Len(s) <= n THEN s ELSE SubSeq(s, Len(s) - n + 1, Len(s))

\* String.prototype.replace(/[^a-zA-Z0-9]/g, "")
RECURSIVE StripNonAlnum(_)
StripNonAlnum(s) ==
    IF s = <<>> THEN <<>>
    ELSE IF IsAlnum(Head(s)) THEN <<Head(s)>> \o StripNonAlnum(Tail(s))
    ELSE StripNonAlnum(Tail(s))

\* String.prototype.trim
RECURSIVE TrimLeft(_)
TrimLeft(s) ==
    IF s # <<>> /\ Head(s) = " " THEN TrimLeft(Tail(s)) ELSE s

RECURSIVE TrimRight(_)
TrimRight(s) ==
    IF s # <<>> /\ s[Len(s)] = " " THEN TrimRight(SubSeq(s, 1, Len(s) - 1))
    ELSE s

Trim(s) == TrimRight(TrimLeft(s))

\* String.prototype.split(sep)[0]
RECURSIVE SplitFirst(_, _)
SplitFirst(s, sep) ==
    IF s = <<>> \/ Head(s) = sep THEN <<>>
    ELSE <<Head(s)>> \o SplitFirst(Tail(s), sep)

\* String.prototype.includes(sub)
Includes(s, sub) ==
    \E i \in 1..(Len(s) + 1) :
        /\ i + Len(sub) - 1 <= Len(s)
        /\ SubSeq(s, i, i + Len(sub) - 1) = sub

\* String.prototype.startsWith(sub)
StartsWith(s, sub) ==
    Len(sub) <= Len(s) /\ SubSeq(s, 1, Len(sub)) = sub

-----------------------------------------------------------------------------
(* Tenant prefixes: config/tenant.config.ts, services/model-factory *)

DEFAULT_TENANTS_ROOT == <<"P", "S", "_", "R", "O", "O", "T">>

\* getTenantCollectionName: `${tenantPrefix}_${modelName}`
getTenantCollectionName(tenantPrefix, modelName) ==
    tenantPrefix \o <<"_">> \o modelName

\* generatePartnerTenantPrefix without a custom prefix
generatePartnerTenantPrefix(partnerName, partnerCode) ==
    LET cleanName == Substring0(ToUpperCase(StripNonAlnum(partnerName)), 8)
        shortId   == ToUpperCase(Substring0(partnerCode, 4))
    IN  <<"P", "S", "_">> \o cleanName \o <<"_">> \o shortId

ModelUser == <<"U", "s", "e", "r">>
ModelLab == <<"L", "a", "b">>
ModelLabSubscription ==
    <<"L", "a", "b", "S", "u", "b", "s", "c", "r", "i", "p", "t", "i", "o", "n">>

\* The company names partners register with (Partner.companyName is free
\* text of at most 100 characters and is not unique).
CompanyNames ==
    { <<"A", "p", "o", "l", "l", "o", " ", "D", "i", "a", "g", "n", "o", "s", "t", "i", "c", "s">>,
      <<"A", "p", "o", "l", "l", "o", " ", "D", "i", "a", "g", " ", "L", "a", "b", "s">>,
      <<"M", "e", "t", "r", "o", "-", "L", "a", "b">>,
      <<"P", "a", "t", "h", "o", "S", "a", "a", "t", "h", "i", " ", "L", "a", "b", "s">> }

\* ObjectIds the database hands out: 24 hex digits, the first 8 being the
\* creation time in seconds, the last 6 a per-process counter.
ObjectIds ==
    { <<"6", "5", "f", "1", "a", "2", "b", "3", "c", "4", "d", "5", "e", "6", "f", "7", "0", "8", "0", "9", "1", "a", "0", "1">>,
      <<"6", "5", "f", "1", "a", "2", "b", "3", "c", "4", "d", "5", "e", "6", "f", "7", "0", "8", "0", "9", "1", "a", "0", "2">>,
      <<"6", "5", "f", "1", "a", "2", "b", "3", "c", "4", "d", "5", "e", "6", "f", "7", "0", "8", "0", "9", "1", "b", "7", "c">>,
      <<"6", "6", "0", "2", "7", "e", "1", "0", "c", "4", "d", "5", "e", "6", "f", "7", "0", "8", "0", "9", "1", "a", "0", "1">> }

MaxPartners == 2
PartnerSlots == 1..MaxPartners

\* The Partner collection: every document has its own _id.
InitPrefix ==
    /\ partnerDocs \in [PartnerSlots -> [companyName : CompanyNames, _id : ObjectIds]]
    /\ \A p, q \in PartnerSlots : p # q => partnerDocs[p]._id # partnerDocs[q]._id
    /\ tenantOf = [p \in PartnerSlots |-> NoString]
    /\ modelCache = {}

\* ModelFactory.createPartnerTenant(partner): derives the prefix and
\* initialises the partner's User, Lab and LabSubscription models, each
\* cached under its collection name.
createPartnerTenant(p) ==
    /\ tenantOf[p] = NoString
    /\ LET tenantPrefix == generatePartnerTenantPrefix(partnerDocs[p].companyName,
                                                       partnerDocs[p]._id)
       IN  /\ tenantOf' = [tenantOf EXCEPT ![p] = tenantPrefix]
           /\ modelCache' = modelCache \cup
                  { getTenantCollectionName(tenantPrefix, ModelUser),
                    getTenantCollectionName(tenantPrefix, ModelLab),
                    getTenantCollectionName(tenantPrefix, ModelLabSubscription) }
    /\ UNCHANGED partnerDocs


-----------------------------------------------------------------------------
(* The clock and the JavaScript Date functions the code uses *)

HoursPerDay == 24

\* Calendar of the days around the start of the model's clock: day 0 is
\* 2024-12-30, day 1 is 2024-12-31, day 2 is 2025-01-01, and so on in January.
DateOfDay(d) ==
    IF d <= 1 THEN [year |-> 2024, month |-> 12, day |-> 30 + d]
    ELSE [year |-> 2025, month |-> 1, day |-> d - 1]

\* The calendar date of an instant in UTC and in the server's local time.
UTCDate(t) == DateOfDay(t \div HoursPerDay)
LocalDate(t, offset) == DateOfDay((t + offset) \div HoursPerDay)

RECURSIVE NatToString(_)
NatToString(n) ==
    IF n < 10 THEN Digits[n + 1]
    ELSE NatToString(n \div 10) \o Digits[(n % 10) + 1]

\* String.prototype.padStart(len, "0")
RECURSIVE PadStart(_, _)
PadStart(s, len) == IF Len(s) >= len THEN s ELSE PadStart("0" \o s, len)

\* formatDate(format): rendered from the local date
formatDate(format, t, offset) ==
    LET d     == LocalDate(t, offset)
        year  == NatToString(d.year)
        yy    == NatToString(d.year % 100)
        month == PadStart(NatToString(d.month), 2)
        day   == PadStart(NatToString(d.day), 2)
    IN  CASE format = "YYYYMMDD" -> year \o month \o day
          [] format = "YYMMDD"   -> PadStart(yy, 2) \o month \o day
          [] format = "DDMMYYYY" -> day \o month \o year
          [] format = "MMDDYYYY" -> month \o day \o year
          [] format = "YY"       -> PadStart(yy, 2)
          [] format = "YYYY"     -> year
          [] OTHER               -> PadStart(yy, 2) \o month \o day

\* Date.prototype.toISOString().slice(0, 10) and .slice(0, 7): the UTC date
ISODate(t) ==
    LET d == UTCDate(t)
    IN  NatToString(d.year) \o "-" \o PadStart(NatToString(d.month), 2)
            \o "-" \o PadStart(NatToString(d.day), 2)

ISOMonth(t) ==
    LET d == UTCDate(t)
    IN  NatToString(d.year) \o "-" \o PadStart(NatToString(d.month), 2)

\* getResetKey(frequency)
getResetKey(frequency, t, offset) ==
    CASE frequency = "DAILY"   -> ISODate(t)
      [] frequency = "MONTHLY" -> ISOMonth(t)
      [] frequency = "YEARLY"  -> NatToString(LocalDate(t, offset).year)
      [] frequency = "NEVER"   -> "all-time"
      [] OTHER                 -> ISODate(t)

-----------------------------------------------------------------------------
(* Identifier configuration and rendering: config/identifier.config.ts *)

ModelTheme == <<"T", "h", "e", "m", "e">>
ModelPatient == <<"P", "a", "t", "i", "e", "n", "t">>
ModelInvoice == <<"I", "n", "v", "o", "i", "c", "e">>

\* A format template is the sequence of its literal pieces and placeholders.
DEFAULT_IDENTIFIER_CONFIG ==
    (ModelUser :> [prefix |-> "PS",
                   format |-> <<"USR_", "{DATE_FORMAT}", "_", "{TODAYS_ENTRY}">>,
                   separator |-> "_", dateFormat |-> "YYMMDD",
                   counterLength |-> 4, resetFrequency |-> "DAILY"])
    @@ (ModelPatient :> [prefix |-> "PS",
                   format |-> <<"PAT_", "{DATE_FORMAT}", "_", "{TODAYS_ENTRY}">>,
                   separator |-> "_", dateFormat |-> "YYMMDD",
                   counterLength |-> 4, resetFrequency |-> "DAILY"])
    @@ (ModelTheme :> [prefix |-> "PS",
                   format |-> <<"THM_", "{COUNTER}">>,
                   separator |-> "_", dateFormat |-> "YYMMDD",
                   counterLength |-> 4, resetFrequency |-> "NEVER"])

\* IdentifierConfigManager.getConfig(tenantPrefix, modelName)
getConfig(cfgs, tenantPrefix, modelName) ==
    IF tenantPrefix \in DOMAIN cfgs /\ modelName \in DOMAIN cfgs[tenantPrefix]
    THEN cfgs[tenantPrefix][modelName]
    ELSE IF modelName \in DOMAIN DEFAULT_IDENTIFIER_CONFIG
         THEN DEFAULT_IDENTIFIER_CONFIG[modelName]
         ELSE DEFAULT_IDENTIFIER_CONFIG[ModelUser]

\* String.prototype.replace(placeholder, value): the first occurrence only
RECURSIVE ReplaceFirst(_, _, _)
ReplaceFirst(format, placeholder, value) ==
    IF format = <<>> THEN <<>>
    ELSE IF Head(format) = placeholder THEN <<value>> \o Tail(format)
    ELSE <<Head(format)>> \o ReplaceFirst(Tail(format), placeholder, value)

RECURSIVE Concat(_)
Concat(pieces) ==
    IF pieces = <<>> THEN "" ELSE Head(pieces) \o Concat(Tail(pieces))

\* parseIdentifierFormat(format, config, counter)
parseIdentifierFormat(format, config, counter, t, offset) ==
    LET dateStr    == formatDate(config.dateFormat, t, offset)
        counterStr == PadStart(NatToString(counter), config.counterLength)
    IN  Concat(ReplaceFirst(ReplaceFirst(ReplaceFirst(format,
            "{DATE_FORMAT}", dateStr), "{TODAYS_ENTRY}", counterStr),
            "{COUNTER}", counterStr))

\* generateIdentifier(tenantPrefix, modelName, counter)
generateIdentifier(cfgs, tenantPrefix, modelName, counter, t, offset) ==
    LET config         == getConfig(cfgs, tenantPrefix, modelName)
        identifierBody == parseIdentifierFormat(config.format, config, counter, t, offset)
    IN  IF config.prefix # ""
        THEN config.prefix \o config.separator \o identifierBody
        ELSE identifierBody


-----------------------------------------------------------------------------
(* Identifier counters: models/identifier-counter.model.ts *)

MaxCallers == 2        \* concurrent getNextIdentifier callers
MaxCalls == 2          \* getNextIdentifier calls started in a run
MaxMaintenance == 1    \* rows reset or deleted in a run
CounterStartHour == HoursPerDay - 1   \* the clock starts at 2024-12-30T23:00Z
MaxCounterClock == 24  \* the clock stops at 2024-12-31T00:00Z

Callers == 1..MaxCallers

\* A partner tenant next to the root tenant
PartnerTenant ==
    generatePartnerTenantPrefix(
        <<"A", "p", "o", "l", "l", "o", " ", "D", "i", "a", "g", "n", "o", "s", "t", "i", "c", "s">>,
        <<"6", "5", "f", "1", "a", "2", "b", "3", "c", "4", "d", "5", "e", "6", "f", "7", "0", "8", "0", "9", "1", "a", "0", "1">>)

CounterTenants == {DEFAULT_TENANTS_ROOT, PartnerTenant}
CounterModels == {ModelUser, ModelTheme}

\* cleanupOldCounters(daysOld) is called with these ages
CleanupDays == {0, 1}

ServerTimezones == {0, 5}

IdleCall == [pc |-> "idle", tenant |-> NoString, model |-> NoString,
             resetKey |-> "", lastUsed |-> NoDate, counter |-> 0, entry |-> 0]

\* Faulty variants of the upsert: the increment is not applied to an
\* inserted row; an existing row is written back without the increment.
findOneAndUpdateIncInsertZero(rows, key, lastUsed) ==
    IF key \in DOMAIN rows
    THEN [rows EXCEPT ![key] = [counter |-> rows[key].counter + 1,
                                lastUsed |-> lastUsed]]
    ELSE rows @@ (key :> [counter |-> 0, lastUsed |-> lastUsed])

findOneAndUpdateIncLost(rows, key, lastUsed) ==
    IF key \in DOMAIN rows
    THEN [rows EXCEPT ![key] = [counter |-> rows[key].counter,
                                lastUsed |-> lastUsed]]
    ELSE rows @@ (key :> [counter |-> 1, lastUsed |-> lastUsed])

\* collection.findOneAndUpdate({modelName, resetKey},
\*     {$inc: {counter: 1}, $set: {lastUsed}, $setOnInsert: {...}},
\*     {upsert: true, new: true}): one atomic operation of the database,
\* which returns the document after the update.
findOneAndUpdateInc(rows, key, lastUsed) ==
    IF key \in DOMAIN rows
    THEN [rows EXCEPT ![key] = [counter |-> rows[key].counter + 1,
                                lastUsed |-> lastUsed]]
    ELSE rows @@ (key :> [counter |-> 1, lastUsed |-> lastUsed])

\* getNextIdentifier, first part: the configuration is read and the reset
\* key and the lastUsed date are computed, then the update is sent.
getNextIdentifierStart(c, tenantPrefix, modelName) ==
    /\ calls[c].pc = "idle"
    /\ ncalls < MaxCalls
    /\ LET config == getConfig(configs, tenantPrefix, modelName)
       IN  calls' = [calls EXCEPT ![c] =
                [IdleCall EXCEPT !.pc = "update", !.tenant = tenantPrefix,
                                 !.model = modelName,
                                 !.resetKey = getResetKey(config.resetFrequency, now, tz),
                                 !.lastUsed = now]]
    /\ ncalls' = ncalls + 1
    /\ UNCHANGED <<now, tz, configs, counters, log>>

\* getNextIdentifier, second part: the database applies the update.
getNextIdentifierUpdate(c) ==
    /\ calls[c].pc = "update"
    /\ LET key  == <<calls[c].tenant, calls[c].model, calls[c].resetKey>>
           rows == findOneAndUpdateInc(counters, key, calls[c].lastUsed)
       IN  /\ counters' = rows
           /\ log' = Append(log, [kind |-> "next", key |-> key,
                                  counter |-> rows[key].counter,
                                  identifier |-> ""])
           /\ calls' = [calls EXCEPT ![c].pc = "render",
                                     ![c].counter = rows[key].counter,
                                     ![c].entry = Len(log) + 1]
    /\ UNCHANGED <<now, tz, configs, ncalls>>

\* getNextIdentifier, last part: generateIdentifier renders the counter.
getNextIdentifierReturn(c) ==
    /\ calls[c].pc = "render"
    /\ log' = [log EXCEPT ![calls[c].entry].identifier =
                  generateIdentifier(configs, calls[c].tenant, calls[c].model,
                                     calls[c].counter, now, tz)]
    /\ calls' = [calls EXCEPT ![c] = IdleCall]
    /\ UNCHANGED <<now, tz, configs, counters, ncalls>>

\* The number of rows reset or deleted so far
Maintained(h) == Cardinality({i \in 1..Len(h) : h[i].kind # "next"})

\* resetCounter(tenantPrefix, modelName): findOneAndUpdate with
\* $set {counter: 0, lastUsed} and upsert.
resetCounter(tenantPrefix, modelName) ==
    /\ Maintained(log) < MaxMaintenance
    /\ LET config == getConfig(configs, tenantPrefix, modelName)
           key    == <<tenantPrefix, modelName,
                       getResetKey(config.resetFrequency, now, tz)>>
       IN  /\ counters' = [k \in DOMAIN counters \cup {key} |->
                              IF k = key THEN [counter |-> 0, lastUsed |-> now]
                              ELSE counters[k]]
           /\ log' = Append(log, [kind |-> "reset", key |-> key,
                                  counter |-> 0, identifier |-> ""])
    /\ UNCHANGED <<now, tz, configs, calls, ncalls>>

\* The rows of one tenant collection that cleanupOldCounters deletes:
\* deleteMany({lastUsed: {$lt: cutoffDate}, resetKey: {$ne: "all-time"}})
cleanupTargets(rows, tenantPrefix, cutoffDate) ==
    { k \in DOMAIN rows : /\ k[1] = tenantPrefix
                          /\ rows[k].lastUsed < cutoffDate
                          /\ k[3] # "all-time" }

RECURSIVE SetToSeq(_)
SetToSeq(S) ==
    IF S = {} THEN <<>>
    ELSE LET x == CHOOSE y \in S : TRUE IN <<x>> \o SetToSeq(S \ {x})

\* cleanupOldCounters(daysOld) on the counter collection of one tenant
cleanupOldCounters(tenantPrefix, daysOld) ==
    LET cutoffDate == now - daysOld * HoursPerDay
        gone       == cleanupTargets(counters, tenantPrefix, cutoffDate)
        goneSeq    == SetToSeq(gone)
    IN  /\ Maintained(log) + Cardinality(gone) <= MaxMaintenance
        /\ counters' = [k \in DOMAIN counters \ gone |-> counters[k]]
        /\ log' = log \o [i \in 1..Len(goneSeq) |->
                             [kind |-> "delete", key |-> goneSeq[i],
                              counter |-> 0, identifier |-> ""]]
        /\ UNCHANGED <<now, tz, configs, calls, ncalls>>

\* Time passes: one hour
TickHour(limit) ==
    /\ now + 1 <= limit
    /\ now' = now + 1

IdlePrefix ==
    /\ partnerDocs = <<>>
    /\ tenantOf = <<>>
    /\ modelCache = {}

InitCounter ==
    /\ now = CounterStartHour
    /\ tz \in ServerTimezones
    /\ configs = <<>>
    /\ counters = <<>>
    /\ calls = [c \in Callers |-> IdleCall]
    /\ log = <<>>
    /\ ncalls = 0


-----------------------------------------------------------------------------
(* Authentication: the stored partners and users *)

APP_DOMAIN == <<"p", "a", "t", "h", "o", "s", "a", "a", "t", "h", "i", ".", "i", "n">>

HostApp == <<"a", "p", "p", ".", "p", "a", "t", "h", "o", "s", "a", "a", "t", "h", "i", ".", "i", "n">>
HostApollo == <<"a", "p", "o", "l", "l", "o", ".", "i", "n">>
HostApolloUpper == <<"A", "P", "O", "L", "L", "O", ".", "I", "N">>
HostApolloPort == <<"a", "p", "o", "l", "l", "o", ".", "i", "n", ":", "3", "0", "0", "0">>
HostOther == <<"o", "t", "h", "e", "r", ".", "i", "n">>

\* mainDomains of AuthService.isMainDomain and of the auth middleware
MainDomains ==
    { APP_DOMAIN,
      <<"w", "w", "w", ".", "p", "a", "t", "h", "o", "s", "a", "a", "t", "h", "i", ".", "i", "n">>,
      HostApp,
      <<"a", "d", "m", "i", "n", ".", "p", "a", "t", "h", "o", "s", "a", "a", "t", "h", "i", ".", "i", "n">>,
      <<"a", "p", "i", ".", "p", "a", "t", "h", "o", "s", "a", "a", "t", "h", "i", ".", "i", "n">>,
      <<"l", "o", "c", "a", "l", "h", "o", "s", "t">>,
      <<"1", "2", "7", ".", "0", ".", "0", ".", "1">> }

\* The hosts requests arrive on
RequestDomains ==
    {APP_DOMAIN, HostApollo, HostApolloUpper, HostApolloPort, HostOther}

\* Partner documents (companyName, domain and _id do not change)
PartnerIds == {"P_PS", "P_APOLLO", "P_METRO", "P_MIRROR"}

Partners ==
    [p \in PartnerIds |->
        CASE p = "P_PS" ->
               [_id |-> <<"6", "6", "a", "3", "1", "c", "4", "2", "c", "4", "d", "5", "e", "6", "f", "7", "0", "8", "0", "9", "a", "a", "1", "0">>,
                companyName |-> <<"P", "a", "t", "h", "o", "S", "a", "a", "t", "h", "i", " ", "L", "a", "b", "s">>,
                domain |-> NoString]
          [] p = "P_APOLLO" ->
               [_id |-> <<"6", "6", "b", "4", "f", "9", "e", "0", "a", "1", "b", "2", "c", "3", "d", "4", "e", "5", "f", "6", "0", "7", "1", "8">>,
                companyName |-> <<"A", "p", "o", "l", "l", "o", " ", "D", "i", "a", "g", "n", "o", "s", "t", "i", "c", "s">>,
                domain |-> HostApollo]
          [] p = "P_METRO" ->
               [_id |-> <<"6", "6", "c", "0", "a", "a", "1", "1", "a", "1", "b", "2", "c", "3", "d", "4", "e", "5", "f", "6", "0", "a", "2", "b">>,
                companyName |-> <<"M", "e", "t", "r", "o", "-", "L", "a", "b">>,
                domain |-> NoString]
          [] p = "P_MIRROR" ->
               [_id |-> <<"6", "6", "0", "2", "7", "e", "1", "0", "c", "4", "d", "5", "e", "6", "f", "7", "0", "8", "0", "9", "1", "a", "0", "1">>,
                companyName |-> <<"M", "i", "r", "r", "o", "r", " ", "L", "a", "b", "s">>,
                domain |-> APP_DOMAIN]]

\* User documents (role, partner, email and password do not change)
UserIds == {"U_ADMIN", "U_PSSTAFF", "U_APOLLO", "U_METRO", "U_MIRROR", "U_LAB"}

Users ==
    [u \in UserIds |->
        CASE u = "U_ADMIN"   -> [role |-> "SUPERADMIN", partner |-> None]
          [] u = "U_PSSTAFF" -> [role |-> "CUSTOMER_SUPPORT", partner |-> "P_PS"]
          [] u = "U_APOLLO"  -> [role |-> "PARTNER", partner |-> "P_APOLLO"]
          [] u = "U_METRO"   -> [role |-> "PARTNER", partner |-> "P_METRO"]
          [] u = "U_MIRROR"  -> [role |-> "PARTNER", partner |-> "P_MIRROR"]
          [] u = "U_LAB"     -> [role |-> "LAB_OWNER", partner |-> None]]

\* populate("partner", "companyName domain partnerType isActive")
\* (present is FALSE for a null reference)
NoPartner == [present |-> FALSE, _id |-> NoString, id |-> None,
              companyName |-> NoString, domain |-> NoString, isActive |-> FALSE]

populatePartner(u, active) ==
    IF Users[u].partner = None \/ Users[u].partner \notin DOMAIN active
    THEN NoPartner
    ELSE [present |-> TRUE,
          _id |-> Partners[Users[u].partner]._id,
          id |-> Users[u].partner,
          companyName |-> Partners[Users[u].partner].companyName,
          domain |-> Partners[Users[u].partner].domain,
          isActive |-> active[Users[u].partner]]

-----------------------------------------------------------------------------
(* User model methods: models/user.model.ts *)

maxAttempts == 5
lockTime == 2      \* 2 * 60 * 60 * 1000 ms, in hours

\* Faulty variant: the comparison with the clock is reversed.
isLockedReversed(doc, t) == doc.lockUntil # NoDate /\ doc.lockUntil < t

\* userSchema.methods.isLocked
isLocked(doc, t) == doc.lockUntil # NoDate /\ doc.lockUntil > t

\* Faulty variant: an expired lock is not recognised, counting continues.
incrementLoginAttemptsNoExpiry(stored, doc, t) ==
    IF doc.loginAttempts + 1 >= 5 /\ ~(doc.lockUntil # NoDate /\ doc.lockUntil > t)
    THEN [stored EXCEPT !.loginAttempts = stored.loginAttempts + 1,
                        !.lockUntil = t + 2]
    ELSE [stored EXCEPT !.loginAttempts = stored.loginAttempts + 1]

\* Faulty variant: the account is locked one attempt late.
incrementLoginAttemptsLate(stored, doc, t) ==
    IF doc.lockUntil # NoDate /\ doc.lockUntil < t
    THEN [stored EXCEPT !.loginAttempts = 1, !.lockUntil = NoDate]
    ELSE IF doc.loginAttempts + 1 > 5 /\ ~(doc.lockUntil # NoDate /\ doc.lockUntil > t)
         THEN [stored EXCEPT !.loginAttempts = stored.loginAttempts + 1,
                             !.lockUntil = t + 2]
         ELSE [stored EXCEPT !.loginAttempts = stored.loginAttempts + 1]

\* userSchema.methods.incrementLoginAttempts: doc is the document as the
\* request read it, stored the document in the collection when updateOne
\* is applied; the result is the stored document after the update.
incrementLoginAttempts(stored, doc, t) ==
    IF doc.lockUntil # NoDate /\ doc.lockUntil < t
    THEN [stored EXCEPT !.loginAttempts = 1, !.lockUntil = NoDate]
    ELSE IF doc.loginAttempts + 1 >= maxAttempts /\ ~isLocked(doc, t)
         THEN [stored EXCEPT !.loginAttempts = stored.loginAttempts + 1,
                             !.lockUntil = t + lockTime]
         ELSE [stored EXCEPT !.loginAttempts = stored.loginAttempts + 1]

\* userSchema.methods.resetLoginAttempts
resetLoginAttempts(stored) ==
    [stored EXCEPT !.loginAttempts = 0, !.lockUntil = NoDate]

-----------------------------------------------------------------------------
(* AuthService helpers: services/auth.service.ts *)

Pathosaathi == <<"p", "a", "t", "h", "o", "s", "a", "a", "t", "h", "i">>
SchemeSep == <<":", "/", "/">>

\* AuthService.isRootUser(user), user.partner populated
isRootUser(u, partner) ==
    IF Users[u].role = "SUPERADMIN" THEN TRUE
    ELSE IF partner.present /\ partner.companyName # NoString
         THEN Includes(ToLowerCase(partner.companyName), Pathosaathi)
         ELSE FALSE

\* new URL(s).hostname for an absolute URL scheme://host[:port][/path]
RECURSIVE AfterScheme(_)
AfterScheme(s) ==
    IF StartsWith(s, SchemeSep) THEN SubSeq(s, 4, Len(s))
    ELSE AfterScheme(Tail(s))

URLHostname(s) ==
    ToLowerCase(SplitFirst(SplitFirst(AfterScheme(s), "/"), ":"))

\* AuthService.extractDomain(urlOrHost)
extractDomain(urlOrHost) ==
    IF urlOrHost = NoString THEN NoString
    ELSE IF Includes(urlOrHost, SchemeSep) THEN ToLowerCase(URLHostname(urlOrHost))
    ELSE Trim(ToLowerCase(SplitFirst(urlOrHost, ":")))

\* AuthService.isMainDomain(domain)
isMainDomain(domain) == ToLowerCase(domain) \in MainDomains

\* Faulty variant: a partner's users may also log in from the main domain.
validateDomainAccessLax(partner, requestDomain, isRoot) ==
    LET actualDomain == extractDomain(requestDomain)
    IN  IF isRoot THEN isMainDomain(actualDomain)
        ELSE IF partner.present
             THEN IF ~partner.isActive THEN FALSE
                  ELSE \/ isMainDomain(actualDomain)
                       \/ Trim(ToLowerCase(actualDomain)) = Trim(ToLowerCase(partner.domain))
             ELSE isMainDomain(actualDomain)

\* AuthService.validateDomainAccess(user, requestDomain, isRootUser).isValid
validateDomainAccess(partner, requestDomain, isRoot) ==
    LET actualDomain == extractDomain(requestDomain)
    IN  IF isRoot THEN isMainDomain(actualDomain)
        ELSE IF partner.present
             THEN IF ~partner.isActive THEN FALSE
                  ELSE IF partner.domain = NoString THEN isMainDomain(actualDomain)
                  ELSE Trim(ToLowerCase(actualDomain)) = Trim(ToLowerCase(partner.domain))
             ELSE isMainDomain(actualDomain)

-----------------------------------------------------------------------------
(* Tokens: config/jwt.config.ts *)

\* PathoSaathiJWTConfig.determineTenantPrefix
determineTenantPrefix(partner, isRoot) ==
    IF isRoot \/ ~partner.present THEN DEFAULT_TENANTS_ROOT
    ELSE LET cleanName == Substring0(ToUpperCase(StripNonAlnum(partner.companyName)), 8)
         IN  <<"P", "S", "_">> \o cleanName \o <<"_">>
                 \o ToUpperCase(SliceLast(partner._id, 4))

\* PathoSaathiJWTConfig.createPayload (the claims that are read again)
createPayload(u, partner, session, isRoot) ==
    [user |-> u,
     role |-> Users[u].role,
     partner |-> IF ~partner.present THEN None ELSE partner.id,
     partnerDomain |-> IF isRoot \/ ~partner.present THEN NoString ELSE partner.domain,
     isRootUser |-> isRoot,
     tenantPrefix |-> determineTenantPrefix(partner, isRoot),
     session |-> session]

\* The audience option both tokens are signed with
signAudience(payload) ==
    IF payload.isRootUser THEN APP_DOMAIN ELSE payload.partnerDomain

\* PathoSaathiJWTConfig.generateAccessToken: the whole payload is signed
generateAccessToken(payload) ==
    [tokenType |-> None,
     user |-> payload.user, role |-> payload.role, partner |-> payload.partner,
     partnerDomain |-> payload.partnerDomain, isRootUser |-> payload.isRootUser,
     tenantPrefix |-> payload.tenantPrefix,
     session |-> payload.session, sessionId |-> NoSession,
     iss |-> APP_DOMAIN, aud |-> signAudience(payload)]

\* PathoSaathiJWTConfig.generateRefreshToken: a selection of the payload is
\* signed; it copies payload.sessionId, which createPayload does not set.
generateRefreshToken(payload) ==
    [tokenType |-> "refresh",
     user |-> payload.user, role |-> payload.role, partner |-> payload.partner,
     partnerDomain |-> payload.partnerDomain, isRootUser |-> payload.isRootUser,
     tenantPrefix |-> payload.tenantPrefix,
     session |-> NoSession, sessionId |-> NoSession,
     iss |-> APP_DOMAIN, aud |-> signAudience(payload)]

\* PathoSaathiJWTConfig.generateTokenPair
generateTokenPair(payload) ==
    [accessToken |-> generateAccessToken(payload),
     refreshToken |-> generateRefreshToken(payload)]

\* A string that is not a token signed with the server's secret
BadToken ==
    [tokenType |-> "garbage", user |-> None, role |-> None, partner |-> None,
     partnerDomain |-> NoString, isRootUser |-> FALSE, tenantPrefix |-> NoString,
     session |-> NoSession, sessionId |-> NoSession, iss |-> NoString,
     aud |-> NoString]

\* PathoSaathiJWTConfig.verifyToken succeeds: signature and issuer (the
\* tokens of the model are younger than their 7 and 30 days of validity)
verifyTokenOk(token) == token # BadToken /\ token.iss = APP_DOMAIN

\* Faulty variant: the override compares the expected domain, not the
\* audience, with the issuer domain.
validateTokenAudienceExpected(token, expectedDomain) ==
    LET audience == token.aud
    IN  IF audience = NoString THEN FALSE
        ELSE \/ Trim(ToLowerCase(audience)) = Trim(ToLowerCase(expectedDomain))
             \/ Trim(ToLowerCase(expectedDomain)) = APP_DOMAIN

\* PathoSaathiJWTConfig.validateTokenAudience(token, expectedDomain)
validateTokenAudience(token, expectedDomain) ==
    LET audience == token.aud
    IN  IF audience = NoString THEN FALSE
        ELSE \/ Trim(ToLowerCase(audience)) = Trim(ToLowerCase(expectedDomain))
             \/ Trim(ToLowerCase(audience)) = APP_DOMAIN


-----------------------------------------------------------------------------
(* Requests: AuthService.login, AuthService.refreshToken, authenticate *)

MaxSessions == 2       \* session ids minted in a run
StartHour == HoursPerDay - 2   \* the clock starts at 2024-12-30T22:00Z
MaxAuthClock == 25     \* and stops at 2024-12-31T01:00Z

UnknownUser == "U_UNKNOWN"    \* credentials no stored user has

Passwords == {"secret", "wrong"}
StoredPassword == "secret"
ClientIPs == {"10.0.0.7"}

NoTokens == [accessToken |-> BadToken, refreshToken |-> BadToken]

\* The lock fields of a user document nobody has read
NotRead == [loginAttempts |-> 0, lockUntil |-> NoDate]

\* The outcome of a step: what was asked (user looked up, domain or Host
\* header, password, token presented), what was answered (HTTP status,
\* error code, token pair), and the lock fields of the user document as
\* login found them.
Outcome(op, u, domain, password, presented, status, code, pair) ==
    [op |-> op, user |-> u, domain |-> domain, password |-> password,
     presented |-> presented, status |-> status, code |-> code,
     issued |-> pair # NoTokens, tokens |-> pair, read |-> NotRead]

\* The outcome of a login that found the user document doc
Found(outcome, doc) ==
    [outcome EXCEPT !.read = [loginAttempts |-> doc.loginAttempts,
                              lockUntil |-> doc.lockUntil]]

Done(op) == Outcome(op, None, NoString, "", BadToken, 0, "", NoTokens)

\* bcrypt.compare(candidatePassword, this.password)
comparePassword(candidatePassword) == candidatePassword = StoredPassword

\* jwt.sign is given audience: undefined when a non-root user's partner has
\* no domain; the library either rejects the option (the request fails with
\* status 500) or signs a token without an audience.
SignOutcomes(op, u, domain, password, presented, payload) ==
    LET pair == generateTokenPair(payload)
    IN  IF signAudience(payload) # NoString
        THEN {Outcome(op, u, domain, password, presented, 200, "OK", pair)}
        ELSE {Outcome(op, u, domain, password, presented, 200, "OK", pair),
              Outcome(op, u, domain, password, presented, 500, "INTERNAL_ERROR", NoTokens)}

Handed(outcome) ==
    IF outcome.issued
    THEN {outcome.tokens.accessToken, outcome.tokens.refreshToken}
    ELSE {}

\* !user in login, !user || !user.isActive in refreshToken and authenticate
userMissing(u) == u # dbUser
userInactiveUnchecked(u) == userMissing(u)   \* faulty: isActive is not read
userInactive(u) == userMissing(u) \/ ~user.isActive

\* AuthService.login(loginData), the user being looked up by the e-mail or
\* phone of user u.  Every throw of the handler is one branch.
Login(u, password, domain, ipAddress) ==
    /\ nextSession <= MaxSessions
    /\ LET partner == populatePartner(u, partnerActive)
           isRoot  == isRootUser(u, partner)
           Missing(code) == Outcome("login", u, domain, password, BadToken, 401, code, NoTokens)
           Fail(code) == Found(Missing(code), user)
       IN
       IF userMissing(u)
       THEN /\ res' = Missing("INVALID_CREDENTIALS")
            /\ UNCHANGED <<user, tokens, nextSession>>
       ELSE IF ~user.isActive
       THEN /\ res' = Fail("ACCOUNT_INACTIVE")
            /\ UNCHANGED <<user, tokens, nextSession>>
       ELSE IF isLocked(user, now)
       THEN /\ res' = Fail("ACCOUNT_LOCKED")
            /\ UNCHANGED <<user, tokens, nextSession>>
       ELSE IF ~comparePassword(password)
       THEN /\ user' = incrementLoginAttempts(user, user, now)
            /\ res' = Fail("INVALID_CREDENTIALS")
            /\ UNCHANGED <<tokens, nextSession>>
       ELSE IF ~validateDomainAccess(partner, domain, isRoot)
       THEN /\ res' = Fail("DOMAIN_MISMATCH")
            /\ UNCHANGED <<user, tokens, nextSession>>
       ELSE LET payload == createPayload(u, partner, nextSession, isRoot)
            IN  /\ user' = [resetLoginAttempts(user) EXCEPT
                               !.lastLoginAt = now, !.ipAddress = ipAddress]
                /\ nextSession' = nextSession + 1
                /\ res' \in {Found(o, user) :
                               o \in SignOutcomes("login", u, domain, password, BadToken, payload)}
                /\ tokens' = tokens \cup Handed(res')
    /\ UNCHANGED <<dbUser, partnerActive, now>>

\* AuthService.refreshToken({refreshToken, domain})
RefreshToken(token, domain) ==
    /\ nextSession <= MaxSessions
    /\ LET Fail(code) == Outcome("refresh", token.user, domain, "", token, 401, code, NoTokens)
       IN
       IF ~verifyTokenOk(token)
       THEN /\ res' = Fail("TOKEN_INVALID")
            /\ UNCHANGED <<tokens, nextSession>>
       ELSE IF ~token.isRootUser /\ ~validateTokenAudience(token, domain)
       THEN /\ res' = Fail("DOMAIN_MISMATCH")
            /\ UNCHANGED <<tokens, nextSession>>
       ELSE IF userInactive(token.user)
       THEN /\ res' = Fail("ACCOUNT_INACTIVE")
            /\ UNCHANGED <<tokens, nextSession>>
       ELSE LET partner == populatePartner(token.user, partnerActive)
            IN  IF ~token.isRootUser /\ partner.present /\ ~partner.isActive
                THEN /\ res' = Fail("PARTNER_INACTIVE")
                     /\ UNCHANGED <<tokens, nextSession>>
                ELSE LET minted    == token.session = NoSession /\ token.sessionId = NoSession
                         sessionId == IF token.session # NoSession THEN token.session
                                      ELSE IF token.sessionId # NoSession THEN token.sessionId
                                      ELSE nextSession
                         payload   == createPayload(token.user, partner, sessionId, token.isRootUser)
                     IN  /\ nextSession' = IF minted THEN nextSession + 1 ELSE nextSession
                         /\ res' \in SignOutcomes("refresh", token.user, domain, "", token, payload)
                         /\ tokens' = tokens \cup Handed(res')
    /\ UNCHANGED <<dbUser, user, partnerActive, now>>

\* PathoSaathiAuthMiddleware.extractDomain(req), from the Host header
middlewareExtractDomain(hostHeader) ==
    IF hostHeader # NoString THEN SplitFirst(hostHeader, ":")
    ELSE <<"l", "o", "c", "a", "l", "h", "o", "s", "t">>

\* PathoSaathiAuthMiddleware.authenticate with "Authorization: Bearer <token>"
\* on a request whose Host header is hostHeader; code "NEXT" stands for
\* req.user being set and next() being called.
Authenticate(token, hostHeader) ==
    /\ LET currentDomain == middlewareExtractDomain(hostHeader)
           Answer(status, code) ==
               Outcome("authenticate", token.user, hostHeader, "", token, status, code, NoTokens)
       IN
       IF ~verifyTokenOk(token)
       THEN res' = Answer(401, "TOKEN_INVALID")
       ELSE IF ~token.isRootUser /\ ~validateTokenAudience(token, currentDomain)
       THEN res' = Answer(403, "DOMAIN_MISMATCH")
       ELSE IF userInactive(token.user)
       THEN res' = Answer(401, "ACCOUNT_INACTIVE")
       ELSE IF /\ ~token.isRootUser
               /\ token.partner # None
               /\ (token.partner \notin DOMAIN partnerActive \/ ~partnerActive[token.partner])
       THEN res' = Answer(403, "PARTNER_INACTIVE")
       ELSE res' = Answer(200, "NEXT")
    /\ UNCHANGED <<dbUser, user, partnerActive, tokens, nextSession, now>>

\* An administrator sets User.isActive
SetUserActive(active) ==
    /\ user.isActive # active
    /\ user' = [user EXCEPT !.isActive = active]
    /\ res' = Done("setUserActive")
    /\ UNCHANGED <<dbUser, partnerActive, tokens, nextSession, now>>

\* Partner.isActive changes (payment, administrator)
SetPartnerActive(p, active) ==
    /\ p \in DOMAIN partnerActive
    /\ partnerActive[p] # active
    /\ partnerActive' = [partnerActive EXCEPT ![p] = active]
    /\ res' = Done("setPartnerActive")
    /\ UNCHANGED <<dbUser, user, tokens, nextSession, now>>

NoOutcome == Done("none")

\* A new user document: schema defaults
NewUser ==
    [isActive |-> TRUE, loginAttempts |-> 0, lockUntil |-> NoDate,
     lastLoginAt |-> NoDate, ipAddress |-> None]

IdleCounter ==
    /\ tz = 0
    /\ configs = <<>>
    /\ counters = <<>>
    /\ calls = <<>>
    /\ log = <<>>
    /\ ncalls = 0

IdleAuth ==
    /\ dbUser = None
    /\ user = NewUser
    /\ partnerActive = <<>>
    /\ tokens = {}
    /\ nextSession = 1
    /\ res = NoOutcome

\* The stored user is one of the users, and its partner (if any) is stored
InitAuth ==
    /\ dbUser \in UserIds
    /\ user = NewUser
    /\ partnerActive = [p \in {Users[dbUser].partner} \ {None} |-> TRUE]
    /\ tokens = {}
    /\ nextSession = 1
    /\ res = NoOutcome
    /\ now = StartHour

-----------------------------------------------------------------------------
(* Tenant resolution: middleware/multi-tenant.middleware.ts *)

Dot == <<".">>
LabelApollo == <<"a", "p", "o", "l", "l", "o">>
LabelApp == <<"a", "p", "p">>
LabelWww == <<"w", "w", "w">>
LabelAdmin == <<"a", "d", "m", "i", "n">>
LabelApi == <<"a", "p", "i">>
Localhost == <<"l", "o", "c", "a", "l", "h", "o", "s", "t">>
Loopback == <<"1", "2", "7", ".", "0", ".", "0", ".", "1">>

HostAppUpperPort ==
    <<"A", "P", "P", ".", "P", "a", "t", "h", "o", "S", "a", "a", "t", "h", "i", ".", "i", "n", ":", "3", "0", "0", "0">>
HostApolloSub == LabelApollo \o Dot \o APP_DOMAIN
HostApolloCustom == <<"l", "a", "b", "s", ".", "a", "p", "o", "l", "l", "o", ".", "i", "n">>
HostAppOther == <<"a", "p", "p", ".", "o", "t", "h", "e", "r", ".", "i", "n">>
HostUnknown == <<"u", "n", "k", "n", "o", "w", "n", ".", "e", "x", "a", "m", "p", "l", "e", ".", "c", "o", "m">>
OriginApollo == <<"h", "t", "t", "p", "s">> \o SchemeSep \o HostApolloCustom
OriginMalformed == <<"n", "u", "l", "l">>

\* The Host and Origin headers requests carry
TenantRequests ==
    [host : {APP_DOMAIN, HostAppUpperPort, HostApolloSub, HostApolloCustom,
             HostAppOther, HostUnknown, Localhost},
     origin : {NoString}]
    \cup [host : {NoString}, origin : {NoString, OriginApollo, OriginMalformed}]

\* Partner documents: subdomain, customDomain and branding do not change.
\* The platform's own partner holds the subdomain "app".
TenantPartnerIds == {"T_ROOT", "T_APOLLO"}

TenantPartners ==
    [p \in TenantPartnerIds |->
        IF p = "T_ROOT"
        THEN [subdomain |-> LabelApp, customDomain |-> NoString, branding |-> None]
        ELSE [subdomain |-> LabelApollo, customDomain |-> HostApolloCustom,
              branding |-> "B_APOLLO"]]

BrandingIds == {"B_APOLLO"}

\* MultiTenantMiddleware.extractHostname(req)
extractHostname(req) ==
    IF req.host # NoString THEN ToLowerCase(SplitFirst(req.host, ":"))
    ELSE IF req.origin # NoString /\ Includes(req.origin, SchemeSep)
         THEN ToLowerCase(URLHostname(req.origin))
         ELSE Localhost

\* MultiTenantMiddleware.isMainDomain(hostname): the same list as MainDomains
tenantIsMainDomain(hostname) == ToLowerCase(hostname) \in MainDomains

\* hostname.split("."): the number of parts and the first part
PartsLength(s) == 1 + Cardinality({i \in 1..Len(s) : s[i] = "."})
FirstPart(s) == SplitFirst(s, ".")

\* MultiTenantMiddleware.extractSubdomain(hostname); NoString stands for null
extractSubdomain(hostname) ==
    IF Includes(hostname, Loopback) \/ Includes(hostname, Localhost)
    THEN IF /\ PartsLength(hostname) >= 2
            /\ FirstPart(hostname) # NoString
            /\ FirstPart(hostname) # LabelWww
            /\ FirstPart(hostname) # Localhost
         THEN FirstPart(hostname)
         ELSE NoString
    ELSE IF /\ PartsLength(hostname) >= 3
            /\ FirstPart(hostname) # NoString
            /\ FirstPart(hostname) \notin {LabelWww, LabelApp, LabelAdmin, LabelApi}
         THEN FirstPart(hostname)
         ELSE NoString

\* Partner.findOne({<field>: value, isActive: true}): the documents it may return
findOnePartner(field, value) ==
    LET found == {p \in TenantPartnerIds :
                     /\ TenantPartners[p][field] = value
                     /\ partnerIsActive[p]}
    IN  IF found = {} THEN {None} ELSE found

NoTenant == [type |-> None, isMainDomain |-> FALSE, partner |-> None,
             branding |-> None, subdomain |-> NoString, customDomain |-> NoString]

\* req.tenant = {type: "ROOT", isMainDomain}
RootTenant(main) == [NoTenant EXCEPT !.type = "ROOT", !.isMainDomain = main]

\* req.tenant = {type: "PARTNER", subdomain, customDomain, partner, branding, ...}
PartnerTenantOf(p, branding) ==
    [type |-> "PARTNER", isMainDomain |-> FALSE, partner |-> p, branding |-> branding,
     subdomain |-> TenantPartners[p].subdomain,
     customDomain |-> TenantPartners[p].customDomain]

IdleRequest == [pc |-> "idle", hostname |-> NoString, partner |-> None,
                tenant |-> NoTenant, nextCalls |-> 0, nextErrors |-> 0,
                threw |-> FALSE, lookedUp |-> FALSE]

\* Faulty variant of the catch block: the error is handed to next
catchResolveErrorPassed(r) ==
    [r EXCEPT !.pc = "done", !.threw = TRUE,
              !.nextCalls = r.nextCalls + 1, !.nextErrors = r.nextErrors + 1]

\* resolveTenant, catch block: req.tenant = ROOT / not main, then next()
catchResolveError(r) ==
    [r EXCEPT !.pc = "done", !.threw = TRUE, !.tenant = RootTenant(FALSE),
              !.nextCalls = r.nextCalls + 1]

\* resolveTenant, else branch: no partner found
noPartnerFound(r) ==
    [r EXCEPT !.pc = "done", !.tenant = RootTenant(FALSE),
              !.nextCalls = r.nextCalls + 1]

\* resolveTenant, partner found: the branding is looked up if the partner has one
partnerFound(r, p) ==
    IF TenantPartners[p].branding # None
    THEN [r EXCEPT !.pc = "findBranding", !.partner = p]
    ELSE [r EXCEPT !.pc = "done", !.partner = p,
                   !.tenant = PartnerTenantOf(p, None),
                   !.nextCalls = r.nextCalls + 1]

\* Faulty variant: the allowlist is not consulted
resolveTenantStartNoAllowlist(req) ==
    /\ tenantReq.pc \in {"idle", "done"}
    /\ tenantReq' = [IdleRequest EXCEPT !.hostname = extractHostname(req),
                                        !.pc = "findByCustomDomain"]
    /\ UNCHANGED <<partnerIsActive, brandingDocs>>

\* resolveTenant up to the first database query
resolveTenantStart(req) ==
    /\ tenantReq.pc \in {"idle", "done"}
    /\ LET hostname == extractHostname(req)
       IN  tenantReq' =
               IF tenantIsMainDomain(hostname)
               THEN [IdleRequest EXCEPT !.hostname = hostname, !.pc = "done",
                                        !.tenant = RootTenant(TRUE),
                                        !.nextCalls = 1]
               ELSE [IdleRequest EXCEPT !.hostname = hostname,
                                        !.pc = "findByCustomDomain"]
    /\ UNCHANGED <<partnerIsActive, brandingDocs>>

\* findPartnerByHostname, one database query per step; a query that fails
\* (ok = FALSE) throws into the catch block of resolveTenant
findPartnerStep(ok) ==
    /\ tenantReq.pc \in {"findByCustomDomain", "findBySubdomain",
                         "findByDomain", "findByDomainSubdomain"}
    /\ LET r == [tenantReq EXCEPT !.lookedUp = TRUE]
           hostname == tenantReq.hostname
       IN  IF ~ok THEN tenantReq' = catchResolveError(r)
           ELSE CASE tenantReq.pc = "findByCustomDomain" ->
                       \E p \in findOnePartner("customDomain", hostname) :
                           tenantReq' =
                               IF p # None THEN partnerFound(r, p)
                               ELSE IF extractSubdomain(hostname) # NoString
                                    THEN [r EXCEPT !.pc = "findBySubdomain"]
                                    ELSE [r EXCEPT !.pc = "findByDomain"]
                  [] tenantReq.pc = "findBySubdomain" ->
                       \E p \in findOnePartner("subdomain",
                                               ToLowerCase(extractSubdomain(hostname))) :
                           tenantReq' =
                               IF p # None THEN partnerFound(r, p)
                               ELSE [r EXCEPT !.pc = "findByDomain"]
                  [] tenantReq.pc = "findByDomain" ->
                       \E p \in findOnePartner("customDomain", ToLowerCase(hostname)) :
                           tenantReq' =
                               IF p # None THEN partnerFound(r, p)
                               ELSE IF PartsLength(hostname) > 1
                                    THEN [r EXCEPT !.pc = "findByDomainSubdomain"]
                                    ELSE noPartnerFound(r)
                  [] tenantReq.pc = "findByDomainSubdomain" ->
                       \E p \in findOnePartner("subdomain", FirstPart(ToLowerCase(hostname))) :
                           tenantReq' =
                               IF p # None THEN partnerFound(r, p)
                               ELSE noPartnerFound(r)
    /\ UNCHANGED <<partnerIsActive, brandingDocs>>

\* Branding.findById(partner.branding), then req.tenant and next()
findBrandingStep(ok) ==
    /\ tenantReq.pc = "findBranding"
    /\ LET b == TenantPartners[tenantReq.partner].branding
       IN  tenantReq' =
               IF ~ok THEN catchResolveError(tenantReq)
               ELSE [tenantReq EXCEPT
                        !.pc = "done",
                        !.tenant = PartnerTenantOf(tenantReq.partner,
                                       IF b \in brandingDocs THEN b ELSE None),
                        !.nextCalls = tenantReq.nextCalls + 1]
    /\ UNCHANGED <<partnerIsActive, brandingDocs>>

\* Partner.isActive changes
SetTenantPartnerActive(p, active) ==
    /\ partnerIsActive[p] # active
    /\ partnerIsActive' = [partnerIsActive EXCEPT ![p] = active]
    /\ UNCHANGED <<brandingDocs, tenantReq>>

\* A Branding document is created or deleted
SetBranding(b, exists) ==
    /\ (b \in brandingDocs) # exists
    /\ brandingDocs' = IF exists THEN brandingDocs \cup {b} ELSE brandingDocs \ {b}
    /\ UNCHANGED <<partnerIsActive, tenantReq>>

IdleTenant ==
    /\ partnerIsActive = <<>>
    /\ brandingDocs = {}
    /\ tenantReq = IdleRequest

InitTenant ==
    /\ partnerIsActive = [p \in TenantPartnerIds |-> TRUE]
    /\ brandingDocs = BrandingIds
    /\ tenantReq = IdleRequest

-----------------------------------------------------------------------------
(* The model factory: services/model-factory.service.ts, models/base.model.ts *)

ModelPartner == <<"P", "a", "r", "t", "n", "e", "r">>

\* The tenants models are requested for: ROOT and two partners.
CompanyRootLabs == <<"R", "o", "o", "t", " ", "L", "a", "b", "s">>
CompanyMetroLab == <<"M", "e", "t", "r", "o", "-", "L", "a", "b">>
FactoryPartnerId ==
    <<"6", "5", "f", "1", "a", "2", "b", "3", "c", "4", "d", "5", "e", "6", "f", "7", "0", "8", "0", "9", "1", "a", "0", "1">>
TenantRootLabs == generatePartnerTenantPrefix(CompanyRootLabs, FactoryPartnerId)
TenantMetroLab == generatePartnerTenantPrefix(CompanyMetroLab, FactoryPartnerId)
FactoryTenants == {DEFAULT_TENANTS_ROOT, TenantRootLabs, TenantMetroLab}

\* A model handle: the name it is registered under, the collection it reads
\* and writes, and which registration call of that name made it.
NoModel == [name |-> NoString, collection |-> NoString, serial |-> 0]

\* mongoose.models[name]
registered(models, name) == \E m \in models : m.name = name

modelNamed(models, name) == CHOOSE m \in models : m.name = name

\* mongoose.model(name, schema, collection): compiles and registers a model;
\* throws OverwriteModelError when the name is registered already.
\* f is [models, regs]: the registry and the history of these calls.
mongooseModel(f, name, collection) ==
    LET serial == Cardinality({r \in f.regs : r.name = name}) + 1
        model  == [name |-> name, collection |-> collection, serial |-> serial]
        regs   == f.regs \cup {[name |-> name, serial |-> serial]}
    IN  IF registered(f.models, name)
        THEN [ok |-> FALSE, found |-> FALSE, model |-> NoModel,
              models |-> f.models, regs |-> regs]
        ELSE [ok |-> TRUE, found |-> FALSE, model |-> model,
              models |-> f.models \cup {model}, regs |-> regs]

\* createTenantModel: registers the model under its collection name
createTenantModel(f, tenantPrefix, modelName) ==
    LET collectionName == getTenantCollectionName(tenantPrefix, modelName)
    IN  mongooseModel(f, collectionName, collectionName)

\* getTenantModel without the lookup of the registered model
getTenantModelNoLookup(f, tenantPrefix, modelName) ==
    createTenantModel(f, tenantPrefix, modelName)

\* getTenantModel: mongoose.model(collectionName) returns the registered
\* model and throws when there is none; the catch block creates it.
getTenantModel(f, tenantPrefix, modelName) ==
    LET collectionName == getTenantCollectionName(tenantPrefix, modelName)
    IN  IF registered(f.models, collectionName)
        THEN [ok |-> TRUE, found |-> TRUE,
              model |-> modelNamed(f.models, collectionName),
              models |-> f.models, regs |-> f.regs]
        ELSE createTenantModel(f, tenantPrefix, modelName)

\* registerModelWithRefName: registers the bare model name for the tenant's
\* collection unless the name is taken; errors are swallowed.
registerModelWithRefName(f, tenantPrefix, modelName) ==
    LET collectionName == getTenantCollectionName(tenantPrefix, modelName)
    IN  IF registered(f.models, modelName)
        THEN f
        ELSE mongooseModel(f, modelName, collectionName)

\* The body the getters share: cache lookup, getTenantModel, cache store and,
\* for the models other schemas refer to, registerModelWithRefName.
getModel(tenantPrefix, modelName, refName) ==
    LET cacheKey == tenantPrefix \o <<"_">> \o modelName
        f == [models |-> mongooseModels, regs |-> registrations]
        handOut(model, found) ==
            handed' = handed \cup {[tenantPrefix |-> tenantPrefix,
                                    modelName |-> modelName,
                                    model |-> model, found |-> found]}
    IN  IF \E c \in cachedModels : c.key = cacheKey
        THEN /\ handOut((CHOOSE c \in cachedModels : c.key = cacheKey).model, FALSE)
             /\ UNCHANGED <<mongooseModels, cachedModels, registrations, factoryFailed>>
        ELSE LET r == getTenantModel(f, tenantPrefix, modelName)
                 g == IF refName
                      THEN registerModelWithRefName(r, tenantPrefix, modelName)
                      ELSE r
             IN  IF r.ok
                 THEN /\ mongooseModels' = g.models
                      /\ registrations' = g.regs
                      /\ cachedModels' = cachedModels \cup
                             {[key |-> cacheKey, model |-> r.model]}
                      /\ handOut(r.model, r.found)
                      /\ UNCHANGED factoryFailed
                 ELSE /\ mongooseModels' = r.models
                      /\ registrations' = r.regs
                      /\ factoryFailed' = TRUE
                      /\ UNCHANGED <<cachedModels, handed>>

getUserModel(tenantPrefix) == getModel(tenantPrefix, ModelUser, FALSE)

getLabModel(tenantPrefix) == getModel(tenantPrefix, ModelLab, TRUE)

getPartnerModel == getModel(DEFAULT_TENANTS_ROOT, ModelPartner, TRUE)

\* ModelFactory.clearTenantCache: drops the keys that start with the prefix
clearTenantCache(tenantPrefix) ==
    /\ cachedModels' = {c \in cachedModels : ~StartsWith(c.key, tenantPrefix)}
    /\ UNCHANGED <<mongooseModels, registrations, handed, factoryFailed>>

\* ModelFactory.clearAllCache
clearAllCache ==
    /\ cachedModels' = {}
    /\ UNCHANGED <<mongooseModels, registrations, handed, factoryFailed>>

IdleFactory ==
    /\ mongooseModels = {}
    /\ cachedModels = {}
    /\ registrations = {}
    /\ handed = {}
    /\ factoryFailed = FALSE

InitFactory == IdleFactory

-----------------------------------------------------------------------------
(* The persisted identifier configuration: models/partner-identifier.model.ts
   and DatabaseIdentifierConfigManager *)

CfgTenants == {PartnerTenant}
CfgModels == {ModelUser, ModelPatient}

\* globalPrefix of the partner's configuration document
GlobalPrefix == "AP"

\* configurations[modelName] of a document that has none for the model
NoConfig == [prefix |-> "", format |-> <<>>, separator |-> "", dateFormat |-> "",
             counterLength |-> 0, resetFrequency |-> ""]

\* DatabaseIdentifierConfigManager.getDefaultConfig: the prefix is the first
\* part of the tenant prefix unless that is "PS".
managerDefaultConfig(tenantPrefix, modelName) ==
    LET parts0 == SplitFirst(tenantPrefix, "_")
        prefix == IF /\ tenantPrefix # DEFAULT_TENANTS_ROOT
                     /\ Includes(tenantPrefix, <<"_">>)
                     /\ parts0 # <<"P", "S">>
                  THEN Concat(parts0) ELSE "PS"
    IN  IF modelName = ModelPatient
        THEN [prefix |-> prefix,
              format |-> <<"PAT_", "{DATE_FORMAT}", "_", "{TODAYS_ENTRY}">>,
              separator |-> "_", dateFormat |-> "YYMMDD",
              counterLength |-> 4, resetFrequency |-> "DAILY"]
        ELSE [prefix |-> prefix,
              format |-> <<"USR_", "{DATE_FORMAT}", "_", "{TODAYS_ENTRY}">>,
              separator |-> "_", dateFormat |-> "YYMMDD",
              counterLength |-> 4, resetFrequency |-> "DAILY"]

\* The document's getDefaultConfig: the prefix is its globalPrefix
docDefaultConfig(modelName) ==
    [managerDefaultConfig(DEFAULT_TENANTS_ROOT, modelName) EXCEPT !.prefix = GlobalPrefix]

\* The document's getModelConfig
getModelConfig(configurations, modelName) ==
    IF configurations[modelName] # NoConfig
    THEN configurations[modelName]
    ELSE docDefaultConfig(modelName)

\* { ...currentConfig, ...config }
SpreadOver(currentConfig, config) ==
    [f \in DOMAIN currentConfig \cup DOMAIN config |->
        IF f \in DOMAIN config THEN config[f] ELSE currentConfig[f]]

\* The document's updateModelConfig
updateModelConfig(configurations, modelName, config) ==
    [configurations EXCEPT ![modelName] =
        SpreadOver(getModelConfig(configurations, modelName), config)]

\* The changes setModelConfig is called with
ConfigChanges == {[resetFrequency |-> "MONTHLY"]}

\* The templates of the document's applyTemplate
TemplateNames == {"SIMPLE_NUMERIC"}

Templates ==
    [name \in TemplateNames |->
        (ModelUser :> [prefix |-> GlobalPrefix, format |-> <<"USR", "{COUNTER}">>,
                       separator |-> "", dateFormat |-> "YYMMDD",
                       counterLength |-> 6, resetFrequency |-> "NEVER"])
        @@ (ModelPatient :> [prefix |-> GlobalPrefix, format |-> <<"PAT", "{COUNTER}">>,
                       separator |-> "", dateFormat |-> "YYMMDD",
                       counterLength |-> 6, resetFrequency |-> "NEVER"])]

\* The document's applyTemplate: { ...this.configurations, ...template }
docApplyTemplate(configurations, templateName) ==
    IF templateName \in TemplateNames
    THEN [m \in DOMAIN configurations |->
            IF m \in DOMAIN Templates[templateName]
            THEN Templates[templateName][m] ELSE configurations[m]]
    ELSE configurations

\* cacheTimeout = 60 * 1000 ms, in seconds; the clock counts hours
cacheTimeout == 60
SecondsPerHour == 3600

\* cacheKey = `${tenantPrefix}:${modelName}`
cacheKeyOf(tenantPrefix, modelName) == tenantPrefix \o <<":">> \o modelName

\* getFromCache never lets an entry expire
getFromCacheNoExpiry(cache, key, t) ==
    IF key \in DOMAIN cache THEN cache[key].config ELSE NoConfig

\* getFromCache(key): the entry if its timestamp is less than cacheTimeout old
getFromCache(cache, key, t) ==
    IF key \in DOMAIN cache
       /\ (t - cache[key].timestamp) * SecondsPerHour < cacheTimeout
    THEN cache[key].config
    ELSE NoConfig

\* cache.delete(key); cacheTimestamps.delete(key)
cacheDelete(cache, keys) == [k \in DOMAIN cache \ keys |-> cache[k]]

\* setCache(key, config)
setCache(cache, key, config, t) ==
    [k \in DOMAIN cache \cup {key} |->
        IF k = key THEN [config |-> config, timestamp |-> t] ELSE cache[k]]

\* DatabaseIdentifierConfigManager.clearTenantCache
cfgClearTenantCache(cache, tenantPrefix) ==
    cacheDelete(cache, {k \in DOMAIN cache : StartsWith(k, tenantPrefix \o <<":">>)})

NoConfigurations == [m \in CfgModels |-> NoConfig]

IdleCfgCall == [pc |-> "idle", op |-> "", tenant |-> NoString, model |-> NoString,
                config |-> NoConfig, change |-> <<>>, template |-> "",
                doc |-> NoConfigurations, clean |-> FALSE, at |-> NoDate]

NoCfgRes == [tenant |-> NoString, model |-> NoString, config |-> NoConfig,
             persisted |-> NoConfig, clean |-> FALSE, age |-> 0]

\* What loadFromDatabase finds for the tenant and the model
persistedConfig(tenantPrefix, modelName) ==
    IF cfgDoc[tenantPrefix][modelName] # NoConfig
    THEN cfgDoc[tenantPrefix][modelName]
    ELSE managerDefaultConfig(tenantPrefix, modelName)

WriteInFlight == \E c \in Callers : cfgCalls[c].op \in {"setModelConfig", "applyTemplate"}

\* getConfig has its configuration: a getConfig call returns it, a
\* generateIdentifier call goes on to getNextCounter.
configReady(c, call, config, age) ==
    IF call.op = "getConfig"
    THEN /\ cfgCalls' = [cfgCalls EXCEPT ![c] = IdleCfgCall]
         /\ cfgRes' = [tenant |-> call.tenant, model |-> call.model,
                       config |-> config,
                       persisted |-> persistedConfig(call.tenant, call.model),
                       clean |-> call.clean, age |-> age]
    ELSE /\ cfgCalls' = [cfgCalls EXCEPT ![c] =
                [call EXCEPT !.pc = "counter", !.config = config]]
         /\ UNCHANGED cfgRes

\* getConfig, first part: the cache is asked; on a miss the entry is removed
\* and loadFromDatabase is awaited.  op is "getConfig" or, for the getConfig
\* that generateIdentifier starts with, "generate".
getConfigStart(c, op, tenantPrefix, modelName) ==
    /\ cfgCalls[c].pc = "idle"
    /\ LET cacheKey == cacheKeyOf(tenantPrefix, modelName)
           cached   == getFromCache(cfgCache, cacheKey, now)
           call     == [IdleCfgCall EXCEPT !.op = op, !.tenant = tenantPrefix,
                            !.model = modelName, !.at = now,
                            !.clean = (cfgWrites > 0 /\ ~WriteInFlight)]
       IN  IF cached # NoConfig
           THEN /\ configReady(c, call, cached,
                        (now - cfgCache[cacheKey].timestamp) * SecondsPerHour)
                /\ UNCHANGED cfgCache
           ELSE /\ cfgCache' = cacheDelete(cfgCache, {cacheKey})
                /\ cfgCalls' = [cfgCalls EXCEPT ![c] = [call EXCEPT !.pc = "load"]]
                /\ UNCHANGED cfgRes
    /\ UNCHANGED <<cfgDoc, cfgWrites, issued>>

\* loadFromDatabase: the database answers findByTenantPrefix
loadFromDatabase(c) ==
    /\ cfgCalls[c].pc = "load"
    /\ cfgCalls' = [cfgCalls EXCEPT ![c].pc = "loaded",
                        ![c].config = persistedConfig(cfgCalls[c].tenant, cfgCalls[c].model)]
    /\ UNCHANGED <<cfgDoc, cfgCache, cfgWrites, cfgRes, issued>>

\* getConfig, last part: the loaded configuration is cached and returned
getConfigEnd(c) ==
    /\ cfgCalls[c].pc = "loaded"
    /\ cfgCache' = setCache(cfgCache, cacheKeyOf(cfgCalls[c].tenant, cfgCalls[c].model),
                            cfgCalls[c].config, now)
    /\ configReady(c, cfgCalls[c], cfgCalls[c].config, 0)
    /\ UNCHANGED <<cfgDoc, cfgWrites, issued>>

MaxWrites == 2

\* setModelConfig and applyTemplate, first part: findByTenantPrefix is
\* awaited.  The getConfig calls in flight now overlap a write.
writeStart(c, op, tenantPrefix, modelName, config, templateName) ==
    /\ cfgCalls[c].pc = "idle"
    /\ cfgWrites + Cardinality({d \in Callers : cfgCalls[d].op \in
                                  {"setModelConfig", "applyTemplate"}}) < MaxWrites
    /\ cfgCalls' = [d \in Callers |->
                      IF d = c
                      THEN [IdleCfgCall EXCEPT !.pc = "find", !.op = op,
                                !.tenant = tenantPrefix, !.model = modelName,
                                !.change = config, !.template = templateName,
                                !.at = now]
                      ELSE [cfgCalls[d] EXCEPT !.clean = FALSE]]
    /\ UNCHANGED <<cfgDoc, cfgCache, cfgWrites, cfgRes, issued>>

setModelConfigStart(c, tenantPrefix, modelName, config) ==
    writeStart(c, "setModelConfig", tenantPrefix, modelName, config, "")

applyTemplateStart(c, tenantPrefix, templateName) ==
    writeStart(c, "applyTemplate", tenantPrefix, NoString, <<>>, templateName)

\* The document is read and changed in memory: setModelConfig spreads the
\* change over getModelConfig and hands it to updateModelConfig,
\* applyTemplate spreads the template over the configurations.
writeFind(c) ==
    /\ cfgCalls[c].pc = "find"
    /\ LET call == cfgCalls[c]
           configurations == cfgDoc[call.tenant]
       IN  cfgCalls' = [cfgCalls EXCEPT ![c].pc = "save", ![c].doc =
               IF call.op = "setModelConfig"
               THEN updateModelConfig(configurations, call.model,
                        SpreadOver(getModelConfig(configurations, call.model), call.change))
               ELSE docApplyTemplate(configurations, call.template)]
    /\ UNCHANGED <<cfgDoc, cfgCache, cfgWrites, cfgRes, issued>>

\* partnerConfig.save(): the changed paths are written
writeSave(c) ==
    /\ cfgCalls[c].pc = "save"
    /\ LET call == cfgCalls[c]
       IN  cfgDoc' = [cfgDoc EXCEPT ![call.tenant] =
               IF call.op = "setModelConfig"
               THEN [@ EXCEPT ![call.model] = call.doc[call.model]]
               ELSE call.doc]
    /\ cfgCalls' = [cfgCalls EXCEPT ![c].pc = "saved"]
    /\ UNCHANGED <<cfgCache, cfgWrites, cfgRes, issued>>

\* After the save the cache is cleared: the entry of the model
\* (setModelConfig) or the entries of the tenant (applyTemplate).
writeEnd(c) ==
    /\ cfgCalls[c].pc = "saved"
    /\ LET call == cfgCalls[c]
       IN  cfgCache' = IF call.op = "setModelConfig"
                       THEN cacheDelete(cfgCache, {cacheKeyOf(call.tenant, call.model)})
                       ELSE cfgClearTenantCache(cfgCache, call.tenant)
    /\ cfgCalls' = [cfgCalls EXCEPT ![c] = IdleCfgCall]
    /\ cfgWrites' = cfgWrites + 1
    /\ UNCHANGED <<cfgDoc, cfgRes, issued>>

\* getNextCounter: getNextIdentifier(tenantPrefix, modelName) is called and
\* the digits its identifier ends with are the counter.  The built-in
\* formats of getNextIdentifier end with a separator and the counter.
generateCounter(c) ==
    /\ cfgCalls[c].pc = "counter"
    /\ getNextIdentifierStart(c, cfgCalls[c].tenant, cfgCalls[c].model)
    /\ cfgCalls' = [cfgCalls EXCEPT ![c].pc = "counting"]
    /\ UNCHANGED <<cfgDoc, cfgCache, cfgWrites, cfgRes, issued>>

\* formatIdentifier(config, counter)
formatIdentifier(config, counter, t, offset) ==
    LET identifierBody == parseIdentifierFormat(config.format, config, counter, t, offset)
    IN  IF config.prefix # ""
        THEN config.prefix \o config.separator \o identifierBody
        ELSE identifierBody

\* generateIdentifier, last part: getNextIdentifier returns, the counter is
\* rendered with the configuration getConfig returned, and the identifier
\* is returned (updateUsageStats touches the statistics only).
generateFormat(c) ==
    /\ cfgCalls[c].pc = "counting"
    /\ calls[c].pc = "render"
    /\ getNextIdentifierReturn(c)
    /\ issued' = Append(issued,
           [tenant |-> cfgCalls[c].tenant, model |-> cfgCalls[c].model,
            identifier |-> formatIdentifier(cfgCalls[c].config, calls[c].counter, now, tz),
            counter |-> calls[c].counter, at |-> cfgCalls[c].at, done |-> now,
            frequency |-> cfgCalls[c].config.resetFrequency])
    /\ cfgCalls' = [cfgCalls EXCEPT ![c] = IdleCfgCall]
    /\ UNCHANGED <<cfgDoc, cfgCache, cfgWrites, cfgRes>>

IdleCfg ==
    /\ cfgDoc = <<>>
    /\ cfgCache = <<>>
    /\ cfgCalls = <<>>
    /\ cfgWrites = 0
    /\ cfgRes = NoCfgRes
    /\ issued = <<>>

\* createDefaultConfiguration has stored the tenant's document
InitCfg ==
    /\ cfgDoc = [t \in CfgTenants |-> NoConfigurations]
    /\ cfgCache = <<>>
    /\ cfgCalls = [c \in Callers |-> IdleCfgCall]
    /\ cfgWrites = 0
    /\ cfgRes = NoCfgRes
    /\ issued = <<>>

-----------------------------------------------------------------------------
(* Partner documents: models/partner.model.ts, config/payment.config.ts *)

PAYMENT_STATUSES == {"PENDING", "PAID", "FAILED", "REFUNDED"}
DEFAULT_PAYMENT_STATUS == "PENDING"
PARTNER_TYPES == {"COMMISSION", "WHITE_LABEL"}

RegistrationDays == 365
MaxSaves == 3          \* saves of the partner document in a run, its creation included
MaxSaveClock == 24     \* the clock stops at 2024-12-31T00:00Z

\* customIdentifierPrefix values a caller sets: none, or an upper-case prefix
IdentifierPrefixes == {"", "APL"}

\* A partner document before its first save: the schema's defaults.  The
\* identifier and the referral code are given by the caller, so that the
\* hook's first two branches have nothing to do.
NewPartner ==
    [paidStatus |-> DEFAULT_PAYMENT_STATUS, registrationDate |-> NoDate,
     expiryDate |-> NoDate, isActive |-> FALSE,
     partnerType |-> "COMMISSION", customIdentifierPrefix |-> ""]

\* isModified(path) for the document "doc" whose stored copy is "stored"
isModified(stored, doc, path) == doc[path] # stored[path]

\* Mutation: the dates are set on every save that makes the partner PAID
paidTransitionEveryTime(stored, doc, t) ==
    IF isModified(stored, doc, "paidStatus") /\ doc.paidStatus = "PAID"
    THEN [doc EXCEPT !.registrationDate = t,
                     !.expiryDate = t + RegistrationDays * HoursPerDay,
                     !.isActive = TRUE]
    ELSE doc

\* pre("save"): the payment branch
paidTransition(stored, doc, t) ==
    IF /\ isModified(stored, doc, "paidStatus")
       /\ doc.paidStatus = "PAID"
       /\ doc.registrationDate = NoDate
    THEN [doc EXCEPT !.registrationDate = t,
                     !.expiryDate = t + RegistrationDays * HoursPerDay,
                     !.isActive = TRUE]
    ELSE doc

\* partnerSchema.methods.initializeIdentifierConfig: the spread copies the
\* top level of DEFAULT_IDENTIFIER_CONFIG only, so the assignment to
\* customConfig[modelName].prefix writes into the shared per-model objects
initializeIdentifierConfig(doc, defaults) ==
    IF doc.partnerType = "WHITE_LABEL" /\ doc.customIdentifierPrefix # ""
    THEN [m \in DOMAIN defaults |->
              [defaults[m] EXCEPT !.prefix = doc.customIdentifierPrefix]]
    ELSE defaults

\* pre("save"): the identifier configuration branch
configTransition(stored, doc, defaults) ==
    IF \/ isModified(stored, doc, "partnerType")
       \/ isModified(stored, doc, "customIdentifierPrefix")
    THEN initializeIdentifierConfig(doc, defaults)
    ELSE defaults

SaveEntry(doc, t) ==
    [at |-> t, paidStatus |-> doc.paidStatus,
     registrationDate |-> doc.registrationDate, expiryDate |-> doc.expiryDate,
     isActive |-> doc.isActive]

\* partner.paidStatus = ...; partner.partnerType = ...;
\* partner.customIdentifierPrefix = ...; await partner.save()
savePartner(status, type, prefix) ==
    LET doc == [partnerDoc EXCEPT !.paidStatus = status, !.partnerType = type,
                                  !.customIdentifierPrefix = prefix]
        saved == paidTransition(partnerDoc, doc, now)
    IN  /\ Len(saveLog) < MaxSaves
        /\ partnerDoc' = saved
        /\ defaultConfig' = configTransition(partnerDoc, doc, defaultConfig)
        /\ saveLog' = Append(saveLog, SaveEntry(saved, now))

IdleSave ==
    /\ partnerDoc = NewPartner
    /\ saveLog = <<>>
    /\ defaultConfig = DEFAULT_IDENTIFIER_CONFIG

\* No model has been created from the shared schemas yet
IdleCreate ==
    /\ schemaDefaults = [m \in {ModelUser} |-> NoString]
    /\ created = <<>>

IdleBrand ==
    /\ brandings = <<>>
    /\ partnerBranding = <<>>

IdleDoc == IdleSave /\ logins = <<>> /\ IdleCreate /\ IdleBrand

\* The partner has been created with some payment status, as a commission
\* partner without a custom prefix
InitDoc ==
    /\ \E status \in PAYMENT_STATUSES :
          LET doc == [NewPartner EXCEPT !.paidStatus = status]
              saved == paidTransition(NewPartner, doc, StartHour)
          IN  /\ partnerDoc = saved
              /\ saveLog = <<SaveEntry(saved, StartHour)>>
    /\ defaultConfig = DEFAULT_IDENTIFIER_CONFIG

IdleExt == IdleTenant /\ IdleFactory /\ IdleCfg /\ IdleDoc

-----------------------------------------------------------------------------
(* Specifications *)

\* Tenant prefixes of partners
InitP == InitPrefix /\ IdleCounter /\ now = StartHour /\ IdleAuth /\ IdleExt

NextP ==
    \E p \in PartnerSlots :
        createPartnerTenant(p) /\ UNCHANGED <<counterVars, authVars, extVars>>

SpecPrefix == InitP /\ [][NextP]_vars

\* Identifier counters: getNextIdentifier calls only
InitC == IdlePrefix /\ InitCounter /\ IdleAuth /\ IdleExt

NextIdentifier ==
    \/ \E c \in Callers, t \in CounterTenants, m \in CounterModels :
           getNextIdentifierStart(c, t, m)
    \/ \E c \in Callers : getNextIdentifierUpdate(c)
    \/ \E c \in Callers : getNextIdentifierReturn(c)

ClockC == TickHour(MaxCounterClock) /\ UNCHANGED <<tz, configs, counters, calls, log, ncalls>>

NextCF ==
    \/ NextIdentifier /\ UNCHANGED <<prefixVars, authVars, extVars>>
    \/ ClockC /\ UNCHANGED <<prefixVars, authVars, extVars>>

SpecCounterFresh == InitC /\ [][NextCF]_vars

\* Identifier counters: every operation of the counter model
Maintenance ==
    \/ \E t \in CounterTenants, m \in CounterModels : resetCounter(t, m)
    \/ \E t \in CounterTenants, d \in CleanupDays : cleanupOldCounters(t, d)

NextC ==
    \/ NextIdentifier /\ UNCHANGED <<prefixVars, authVars, extVars>>
    \/ Maintenance /\ UNCHANGED <<prefixVars, authVars, extVars>>
    \/ ClockC /\ UNCHANGED <<prefixVars, authVars, extVars>>

SpecCounter == InitC /\ [][NextC]_vars

\* Authentication: logins while time passes and accounts are switched
InitA == IdlePrefix /\ IdleCounter /\ InitAuth /\ IdleExt

ClockA ==
    /\ TickHour(MaxAuthClock)
    /\ res' = Done("tick")
    /\ UNCHANGED <<dbUser, user, partnerActive, tokens, nextSession>>

LoginRequest ==
    \E u \in {dbUser, UnknownUser}, pw \in Passwords, d \in RequestDomains, ip \in ClientIPs :
        Login(u, pw, d, ip)

Administration ==
    \/ \E b \in BOOLEAN : SetUserActive(b)
    \/ \E p \in PartnerIds, b \in BOOLEAN : SetPartnerActive(p, b)

NextL ==
    \/ LoginRequest /\ UNCHANGED <<prefixVars, tz, configs, counters, calls, log, ncalls, extVars>>
    \/ Administration /\ UNCHANGED <<prefixVars, tz, configs, counters, calls, log, ncalls, extVars>>
    \/ ClockA /\ UNCHANGED <<prefixVars, tz, configs, counters, calls, log, ncalls, extVars>>

SpecLogin == InitA /\ [][NextL]_vars

\* Authentication: tokens issued by login are refreshed and presented
TokenRequest ==
    \/ \E t \in tokens \cup {BadToken}, d \in RequestDomains : RefreshToken(t, d)
    \/ \E t \in tokens \cup {BadToken}, d \in RequestDomains : Authenticate(t, d)

NextT ==
    \/ LoginRequest /\ UNCHANGED <<prefixVars, tz, configs, counters, calls, log, ncalls, extVars>>
    \/ TokenRequest /\ UNCHANGED <<prefixVars, tz, configs, counters, calls, log, ncalls, extVars>>
    \/ Administration /\ UNCHANGED <<prefixVars, tz, configs, counters, calls, log, ncalls, extVars>>

SpecToken == InitA /\ [][NextT]_vars

Spec == SpecLogin


-----------------------------------------------------------------------------
(* Properties *)

NextEntries(key) ==
    {i \in 1..Len(log) : log[i].kind = "next" /\ log[i].key = key}

LogKeys == {log[i].key : i \in 1..Len(log)}

CounterSuffix(n) ==
    CASE n = 1 -> "0001" [] n = 2 -> "0002" [] n = 3 -> "0003"
      [] n = 4 -> "0004" [] OTHER -> "?"

\* The identifiers of the default configurations on the days of the model
ExpectedIdentifiers(modelName, n) ==
    IF modelName = ModelUser
    THEN {"PS_USR_241230_" \o CounterSuffix(n), "PS_USR_241231_" \o CounterSuffix(n)}
    ELSE {"PS_THM_" \o CounterSuffix(n)}

\* C1: on a fresh counter row, the N getNextIdentifier calls made for one
\* tenant, entity type and reset period (one after another or concurrently)
\* receive exactly the counter values 1..N, each once, and the identifier
\* returned for counter n ends in n padded to four digits (0001, 0002, ...).
C1_GaplessCounters ==
    \A key \in LogKeys :
        /\ {log[i].counter : i \in NextEntries(key)} = 1..Cardinality(NextEntries(key))
        /\ \A i \in NextEntries(key) :
               log[i].identifier # "" =>
                   log[i].identifier \in ExpectedIdentifiers(key[2], log[i].counter)

\* Two calls for the same counter row have returned, with 0001 and 0002
C1_Witness ==
    \E i, j \in 1..Len(log) :
        /\ i < j /\ log[i].key = log[j].key
        /\ log[i].identifier \in ExpectedIdentifiers(log[i].key[2], 1)
        /\ log[j].identifier \in ExpectedIdentifiers(log[j].key[2], 2)

\* C2 as claimed: for every (collection, modelName, resetKey) the values
\* handed out are strictly increasing and none is handed out twice, whatever
\* getNextIdentifier, resetCounter and cleanupOldCounters calls are made.
C2_NeverReused ==
    \A i, j \in 1..Len(log) :
        (i < j /\ log[i].kind = "next" /\ log[j].kind = "next"
               /\ log[i].key = log[j].key)
            => log[i].counter < log[j].counter

\* C2 as amended: the values handed out for one (collection, modelName,
\* resetKey) are strictly increasing and never repeated as long as no
\* resetCounter and no cleanupOldCounters deletion of that row lies between
\* the two calls.
C2_IncreasingBetweenResets ==
    \A i, j \in 1..Len(log) :
        (/\ i < j /\ log[i].kind = "next" /\ log[j].kind = "next"
         /\ log[i].key = log[j].key
         /\ \A k \in i..j : log[k].kind # "next" => log[k].key # log[i].key)
            => log[i].counter < log[j].counter

\* A row was reset or deleted and two values were handed out from it afterwards
C2_Witness ==
    \E i, j, k \in 1..Len(log) :
        /\ i < j /\ j < k
        /\ log[i].kind # "next" /\ log[j].kind = "next" /\ log[k].kind = "next"
        /\ log[i].key = log[j].key /\ log[j].key = log[k].key

\* C3: two distinct partners never obtain the same tenant prefix from
\* createPartnerTenant, so they never share a collection.
C3_DistinctTenantPrefixes ==
    \A p, q \in PartnerSlots :
        (p # q /\ tenantOf[p] # NoString /\ tenantOf[q] # NoString)
            => /\ tenantOf[p] # tenantOf[q]
               /\ getTenantCollectionName(tenantOf[p], ModelUser)
                      # getTenantCollectionName(tenantOf[q], ModelUser)

\* The host a request names, without port and in lower case
RequestHost(d) == ToLowerCase(SplitFirst(d, ":"))

\* A root user: SUPERADMIN, or user of a partner named like the platform
RootUser(u) ==
    \/ Users[u].role = "SUPERADMIN"
    \/ /\ Users[u].partner # None
       /\ Includes(ToLowerCase(Partners[Users[u].partner].companyName), Pathosaathi)

\* The domain rule of login for user u and request domain d
DomainRule(u, d) ==
    IF RootUser(u) THEN RequestHost(d) \in MainDomains
    ELSE IF Users[u].partner # None /\ Partners[Users[u].partner].domain # NoString
         THEN /\ partnerActive[Users[u].partner]
              /\ RequestHost(d) = ToLowerCase(Partners[Users[u].partner].domain)
         ELSE RequestHost(d) \in MainDomains

\* C4: login issues tokens only if the domain rule holds (root users on a
\* main domain, users of an active partner with a domain on that domain
\* case-insensitively, other users on a main domain); a login with good
\* credentials that breaks the rule fails with DOMAIN_MISMATCH, without tokens.
C4_LoginDomainRule ==
    (res.op = "login" /\ res.user = dbUser) =>
        /\ res.issued => res.code = "OK"
        /\ res.code \in {"OK", "INTERNAL_ERROR"} => DomainRule(res.user, res.domain)
        /\ (/\ ~DomainRule(res.user, res.domain)
            /\ res.password = StoredPassword
            /\ user.isActive
            /\ ~(user.lockUntil # NoDate /\ user.lockUntil > now))
               => res.code = "DOMAIN_MISMATCH" /\ ~res.issued

\* A partner's user has logged in from the partner's domain written in capitals
C4_Witness ==
    /\ res.op = "login" /\ res.issued
    /\ res.user = "U_APOLLO" /\ res.domain = HostApolloUpper

\* The domain the audience check is given: the Host header without its
\* port in authenticate, the request's domain in refreshToken
ResolvedDomain == IF res.op = "authenticate" THEN SplitFirst(res.domain, ":") ELSE res.domain

\* A non-root token minted with an audience went through the audience check
AudienceChecked ==
    /\ res.op \in {"refresh", "authenticate"}
    /\ res.code # "TOKEN_INVALID"
    /\ ~res.presented.isRootUser
    /\ res.presented.aud # NoString

\* C5 as claimed: the audience check accepts a non-root token with
\* audience A on resolved domain D exactly if D is A or D is the platform
\* issuer domain (both compared without regard to case).
C5_AudienceOrIssuerHost ==
    AudienceChecked =>
        (res.code # "DOMAIN_MISMATCH") <=>
            \/ ToLowerCase(ResolvedDomain) = ToLowerCase(res.presented.aud)
            \/ ToLowerCase(ResolvedDomain) = APP_DOMAIN

\* C5 as amended: the audience check accepts exactly if D equals A without
\* regard to case, or A itself is the platform issuer domain; a token with
\* audience apollo.in is accepted at apollo.in and rejected at other.in and
\* at the platform issuer domain.
C5_AudienceMatch ==
    AudienceChecked =>
        /\ (res.code # "DOMAIN_MISMATCH") <=>
               \/ ToLowerCase(ResolvedDomain) = ToLowerCase(res.presented.aud)
               \/ ToLowerCase(res.presented.aud) = APP_DOMAIN
        /\ res.presented.aud = HostApollo =>
               /\ ResolvedDomain = HostApollo => res.code # "DOMAIN_MISMATCH"
               /\ ResolvedDomain \in {HostOther, APP_DOMAIN} => res.code = "DOMAIN_MISMATCH"

\* A token for apollo.in was presented on the platform issuer domain and rejected
C5_Witness ==
    /\ res.op = "authenticate"
    /\ res.presented.aud = HostApollo
    /\ res.domain = APP_DOMAIN
    /\ res.code = "DOMAIN_MISMATCH"

\* C6: the authenticate middleware accepts a token whose isRootUser claim
\* is true only on a main platform domain.
C6_RootTokenOnlyOnMainDomain ==
    (res.op = "authenticate" /\ res.code = "NEXT" /\ res.presented.isRootUser)
        => RequestHost(res.domain) \in MainDomains

\* C7: every access and refresh token carries a session claim, and the
\* pair issued by a refresh carries the session of the token presented.
C7_SessionPreserved ==
    /\ \A t \in tokens : t.session # NoSession
    /\ (res.op = "refresh" /\ res.issued) =>
           /\ res.tokens.accessToken.session = res.presented.session
           /\ res.tokens.refreshToken.session = res.presented.session

\* The stored user, or for a non-root user the partner, is inactive
AccountInactive ==
    \/ ~user.isActive
    \/ /\ ~RootUser(dbUser)
       /\ Users[dbUser].partner # None
       /\ ~partnerActive[Users[dbUser].partner]

\* C8: while the user is inactive, or a non-root user's partner is
\* inactive, refreshToken and authenticate reject every token issued
\* before and no new pair is issued.
C8_InactiveRejected ==
    (res.op \in {"refresh", "authenticate"} /\ res.presented \in tokens /\ AccountInactive)
        => /\ res.status \in {401, 403}
           /\ ~res.issued

\* A refresh token was presented after the user was deactivated
C8_Witness ==
    /\ res.op = "refresh"
    /\ res.presented \in tokens
    /\ res.presented.tokenType = "refresh"
    /\ ~user.isActive
    /\ res.code = "ACCOUNT_INACTIVE"

\* C9: for an active user without lockUntil, a wrong-password login
\* answers 401 INVALID_CREDENTIALS and raises loginAttempts by one;
\* lockUntil stays unset up to the fourth failure, and the fifth leaves
\* loginAttempts = 5 and lockUntil = time of the attempt + 2 hours.
C9_FailedLoginCounts ==
    [][(/\ res'.op = "login" /\ res'.user = dbUser
        /\ res'.password # StoredPassword
        /\ user.isActive /\ user.lockUntil = NoDate)
          => /\ res'.status = 401 /\ res'.code = "INVALID_CREDENTIALS"
             /\ ~res'.issued
             /\ user.loginAttempts <= 4
             /\ user'.loginAttempts = user.loginAttempts + 1
             /\ user.loginAttempts < 4 => user'.lockUntil = NoDate
             /\ user.loginAttempts = 4 =>
                    user'.loginAttempts = 5 /\ user'.lockUntil = now + 2]_vars

\* The fifth failed login has just locked the account
C9_Witness ==
    /\ res.op = "login" /\ res.code = "INVALID_CREDENTIALS" /\ res.user = dbUser
    /\ user.loginAttempts = 5
    /\ user.lockUntil = now + 2

\* C10 as claimed: while lockUntil lies in the future every login of the
\* user is rejected with ACCOUNT_LOCKED, whatever the password, before the
\* password is compared, and no tokens are issued.
C10_LockedRejected ==
    [][(/\ res'.op = "login" /\ res'.user = dbUser
        /\ user.lockUntil # NoDate /\ user.lockUntil > now)
          => /\ res'.status = 401 /\ res'.code = "ACCOUNT_LOCKED"
             /\ ~res'.issued
             /\ user' = user /\ tokens' = tokens]_vars

\* C10 as amended: while lockUntil lies in the future every login of the
\* user is rejected before the password is compared, whatever the
\* password, and no tokens are issued; the error is ACCOUNT_LOCKED for an
\* active user and ACCOUNT_INACTIVE for a deactivated one.
C10_LockedRejectedEarly ==
    [][(/\ res'.op = "login" /\ res'.user = dbUser
        /\ user.lockUntil # NoDate /\ user.lockUntil > now)
          => /\ res'.status = 401
             /\ res'.code = IF user.isActive THEN "ACCOUNT_LOCKED" ELSE "ACCOUNT_INACTIVE"
             /\ ~res'.issued
             /\ user' = user /\ tokens' = tokens]_vars

\* A locked, active user has supplied the right password and was rejected
C10_Witness ==
    /\ res.op = "login" /\ res.user = dbUser
    /\ res.password = StoredPassword
    /\ res.code = "ACCOUNT_LOCKED"
    /\ user.isActive /\ user.loginAttempts = 5

\* C11: once the lock window has elapsed (lockUntil in the past), the next
\* wrong-password login sets loginAttempts to 1 and clears lockUntil; from
\* there the account is locked again only by the fourth further
\* wrong-password login (loginAttempts 1, 2, 3 do not lock, 4 does).
C11_ExpiredLockRestarts ==
    [][(/\ res'.op = "login" /\ res'.user = dbUser
        /\ res'.password # StoredPassword
        /\ user.isActive)
          => /\ (user.lockUntil # NoDate /\ user.lockUntil < now)
                    => /\ res'.code = "INVALID_CREDENTIALS"
                       /\ user'.loginAttempts = 1
                       /\ user'.lockUntil = NoDate
             /\ (user.lockUntil = NoDate /\ user.loginAttempts \in 1..3)
                    => user'.lockUntil = NoDate
             /\ (user.lockUntil = NoDate /\ user.loginAttempts = 4)
                    => user'.lockUntil = now + 2]_vars

\* A wrong password after the lock window has elapsed has restarted the count
C11_Witness ==
    /\ res.op = "login" /\ res.code = "INVALID_CREDENTIALS" /\ res.user = dbUser
    /\ res.read.loginAttempts >= 5
    /\ res.read.lockUntil # NoDate /\ res.read.lockUntil < now
    /\ user.loginAttempts = 1 /\ user.lockUntil = NoDate

\* C12: a login that fails at user lookup, at the inactive check, at the
\* lock check or at the domain check leaves the stored user unchanged; one
\* that fails at the password check changes only loginAttempts and
\* lockUntil; lastLoginAt, ipAddress and the reset of loginAttempts to 0 are
\* written only by a login that returns tokens.
C12_LoginFrame ==
    [][res'.op = "login"
          => /\ (\/ res'.user # dbUser
                 \/ res'.code \in {"ACCOUNT_INACTIVE", "ACCOUNT_LOCKED", "DOMAIN_MISMATCH"})
                    => user' = user
             /\ (res'.user = dbUser /\ res'.code = "INVALID_CREDENTIALS")
                    => user' = [user EXCEPT !.loginAttempts = user'.loginAttempts,
                                            !.lockUntil = user'.lockUntil]
             /\ ~res'.issued
                    => /\ user'.lastLoginAt = user.lastLoginAt
                       /\ user'.ipAddress = user.ipAddress
                       /\ (user.loginAttempts > 0 => user'.loginAttempts > 0)]_vars

-----------------------------------------------------------------------------
(* Tenant resolution: specification and properties *)

InitT ==
    /\ IdlePrefix /\ IdleCounter /\ now = StartHour /\ IdleAuth
    /\ InitTenant /\ IdleFactory /\ IdleCfg /\ IdleDoc

NextTenant ==
    \/ /\ \E req \in TenantRequests : resolveTenantStart(req)
       /\ UNCHANGED notTenantVars
    \/ /\ \E ok \in BOOLEAN : findPartnerStep(ok)
       /\ UNCHANGED notTenantVars
    \/ /\ \E ok \in BOOLEAN : findBrandingStep(ok)
       /\ UNCHANGED notTenantVars
    \/ /\ \/ \E p \in TenantPartnerIds, b \in BOOLEAN : SetTenantPartnerActive(p, b)
          \/ \E d \in BrandingIds, b \in BOOLEAN : SetBranding(d, b)
       /\ UNCHANGED notTenantVars

SpecTenant == InitT /\ [][NextTenant]_vars

\* C13: whatever the hostname and whatever the partner and branding
\* lookups return or throw, resolveTenant ends with req.tenant being
\* ROOT/main, ROOT/not main or PARTNER with the partner attached, and has
\* then called next exactly once, without an error; a lookup that throws or
\* finds no partner yields ROOT/not main.
C13_ResolveTenantTotal ==
    /\ tenantReq.pc # "done" => tenantReq.nextCalls = 0
    /\ tenantReq.pc = "done" =>
           /\ \/ tenantReq.tenant \in {RootTenant(TRUE), RootTenant(FALSE)}
              \/ /\ tenantReq.tenant.type = "PARTNER"
                 /\ tenantReq.tenant.partner \in TenantPartnerIds
                 /\ ~tenantReq.tenant.isMainDomain
           /\ tenantReq.nextCalls = 1
           /\ tenantReq.nextErrors = 0
           /\ (tenantReq.threw \/ (tenantReq.lookedUp /\ tenantReq.partner = None))
                  => tenantReq.tenant = RootTenant(FALSE)

\* The branding lookup threw after the partner had been found
C13_Witness ==
    /\ tenantReq.pc = "done"
    /\ tenantReq.threw
    /\ tenantReq.partner # None
    /\ tenantReq.tenant = RootTenant(FALSE)
    /\ tenantReq.nextCalls = 1

\* The platform apex domain and its www, app, admin and api subdomains
PlatformHosts ==
    {APP_DOMAIN} \cup {l \o Dot \o APP_DOMAIN : l \in {LabelWww, LabelApp, LabelAdmin, LabelApi}}

\* C14 as claimed: resolveTenant answers ROOT/main exactly for the apex
\* domain and its www, app, admin, api subdomains, without a partner lookup.
C14_MainIffPlatformHost ==
    tenantReq.pc = "done" =>
        /\ tenantReq.tenant = RootTenant(TRUE) <=> tenantReq.hostname \in PlatformHosts
        /\ tenantReq.hostname \in PlatformHosts => ~tenantReq.lookedUp

\* C14 as amended: resolveTenant answers ROOT/main exactly for the apex
\* domain, its www, app, admin, api subdomains, localhost and 127.0.0.1
\* (localhost also standing for a request without usable Host and Origin
\* headers); for these hostnames no partner lookup is made, also when a
\* partner has the hostname configured.
C14_MainIffAllowlisted ==
    tenantReq.pc = "done" =>
        /\ tenantReq.tenant = RootTenant(TRUE)
               <=> tenantReq.hostname \in PlatformHosts \cup {Localhost, Loopback}
        /\ tenantReq.hostname \in PlatformHosts \cup {Localhost, Loopback}
               => ~tenantReq.lookedUp /\ tenantReq.partner = None

\* app.pathosaathi.in, which the active root partner holds as its
\* subdomain, was resolved to ROOT/main without a lookup
C14_Witness ==
    /\ tenantReq.pc = "done"
    /\ tenantReq.hostname = HostApp
    /\ partnerIsActive["T_ROOT"]
    /\ TenantPartners["T_ROOT"].subdomain = FirstPart(tenantReq.hostname)
    /\ tenantReq.tenant = RootTenant(TRUE)
    /\ ~tenantReq.lookedUp

-----------------------------------------------------------------------------
(* The model factory: specification and properties *)

InitF ==
    /\ IdlePrefix /\ IdleCounter /\ now = StartHour /\ IdleAuth
    /\ IdleTenant /\ InitFactory /\ IdleCfg /\ IdleDoc

NextFactory ==
    \/ /\ \E t \in FactoryTenants : getUserModel(t)
       /\ UNCHANGED notFactoryVars
    \/ /\ \E t \in FactoryTenants : getLabModel(t)
       /\ UNCHANGED notFactoryVars
    \/ /\ getPartnerModel
       /\ UNCHANGED notFactoryVars
    \/ /\ \E t \in FactoryTenants : clearTenantCache(t)
       /\ UNCHANGED notFactoryVars
    \/ /\ clearAllCache
       /\ UNCHANGED notFactoryVars

SpecFactory == InitF /\ [][NextFactory]_vars

\* C15: whatever the sequence of model requests and cache clears, every
\* name is registered with the ORM at most once, no request fails, and all
\* the requests for one (tenant prefix, entity type) return the same handle.
C15_RegisteredOnce ==
    /\ \A r \in registrations : r.serial = 1
    /\ ~factoryFailed
    /\ \A h1, h2 \in handed :
           (h1.tenantPrefix = h2.tenantPrefix /\ h1.modelName = h2.modelName)
               => h1.model = h2.model

\* A handle was created, the cache was cleared, and the next request for the
\* same tenant and entity type found the registered model.
C15_Witness ==
    \E h1, h2 \in handed :
        /\ h1.tenantPrefix = h2.tenantPrefix /\ h1.modelName = h2.modelName
        /\ ~h1.found /\ h2.found
        /\ h1.tenantPrefix # DEFAULT_TENANTS_ROOT
        /\ registered(mongooseModels,
                      getTenantCollectionName(h1.tenantPrefix, h1.modelName))

\* C16: once a handle of an entity type other schemas refer to has been
\* created for a tenant, the bare name of the type resolves to that
\* tenant's collection of the type.
C16_RefNameFollowsTenant ==
    \A h \in handed :
        h.modelName \in {ModelLab, ModelPartner} =>
            \E m \in mongooseModels :
                /\ m.name = h.modelName
                /\ m.collection = getTenantCollectionName(h.tenantPrefix, h.modelName)

-----------------------------------------------------------------------------
(* Counter resets at the period boundaries: specification and properties *)

ModelReport == <<"R", "e", "p", "o", "r", "t">>

\* A tenant configuration, as setTenantConfig stores it, with one entity
\* type for each reset frequency.
ResetTenantConfig ==
    (ModelUser :> [prefix |-> "AP",
                   format |-> <<"USR_", "{DATE_FORMAT}", "_", "{TODAYS_ENTRY}">>,
                   separator |-> "_", dateFormat |-> "YYMMDD",
                   counterLength |-> 4, resetFrequency |-> "DAILY"])
    @@ (ModelLab :> [prefix |-> "AP",
                   format |-> <<"LAB_", "{DATE_FORMAT}", "_", "{COUNTER}">>,
                   separator |-> "_", dateFormat |-> "YYMMDD",
                   counterLength |-> 4, resetFrequency |-> "MONTHLY"])
    @@ (ModelReport :> [prefix |-> "AP",
                   format |-> <<"REP_", "{DATE_FORMAT}", "_", "{COUNTER}">>,
                   separator |-> "_", dateFormat |-> "YYYY",
                   counterLength |-> 4, resetFrequency |-> "YEARLY"])
    @@ (ModelTheme :> [prefix |-> "AP",
                   format |-> <<"THM_", "{COUNTER}">>,
                   separator |-> "_", dateFormat |-> "YYMMDD",
                   counterLength |-> 4, resetFrequency |-> "NEVER"])

ResetModels == DOMAIN ResetTenantConfig

MaxReached == 2                          \* the counters have reached at most this
ResetStartHour == 2 * HoursPerDay - 6    \* the clock starts at 2024-12-31T18:00Z
MaxResetClock == 48                      \* the clock stops at 2025-01-01T00:00Z

\* The counter rows of the tenant after `reached` calls for each entity type
\* in the hour the clock starts with.
rowsReached(reached, offset) ==
    IF reached = 0 THEN <<>>
    ELSE [k \in { <<PartnerTenant, m,
                    getResetKey(ResetTenantConfig[m].resetFrequency,
                                ResetStartHour, offset)>> : m \in ResetModels }
             |-> [counter |-> reached, lastUsed |-> ResetStartHour]]

InitR ==
    /\ IdlePrefix /\ IdleAuth /\ IdleExt
    /\ now = ResetStartHour
    /\ tz \in ServerTimezones
    /\ configs = (PartnerTenant :> ResetTenantConfig)
    /\ \E reached \in 0..MaxReached : counters = rowsReached(reached, tz)
    /\ calls = [c \in Callers |-> IdleCall]
    /\ log = <<>>
    /\ ncalls = 0

NextR ==
    \/ /\ \E c \in Callers, m \in ResetModels :
              getNextIdentifierStart(c, PartnerTenant, m)
       /\ UNCHANGED <<prefixVars, authVars, extVars>>
    \/ /\ \E c \in Callers : getNextIdentifierUpdate(c)
       /\ UNCHANGED <<prefixVars, authVars, extVars>>
    \/ /\ \E c \in Callers : getNextIdentifierReturn(c)
       /\ UNCHANGED <<prefixVars, authVars, extVars>>
    \/ /\ TickHour(MaxResetClock)
       /\ UNCHANGED <<tz, configs, counters, calls, log, ncalls>>
       /\ UNCHANGED <<prefixVars, authVars, extVars>>

SpecReset == InitR /\ [][NextR]_vars

\* Two instants of the server's clock lie in the same period of a frequency
SamePeriod(frequency, t1, t2, offset) ==
    LET d1 == LocalDate(t1, offset)
        d2 == LocalDate(t2, offset)
    IN  CASE frequency = "DAILY"   -> d1 = d2
          [] frequency = "MONTHLY" -> d1.year = d2.year /\ d1.month = d2.month
          [] frequency = "YEARLY"  -> d1.year = d2.year
          [] OTHER                 -> TRUE

MaxOf(S) == CHOOSE x \in S : \A y \in S : y <= x

\* The counter a call made at instant t has to return: one more than the
\* counter reached by the calls made in the period of t, 1 when there was none.
ExpectedCounter(tenantPrefix, modelName, t) ==
    LET frequency == getConfig(configs, tenantPrefix, modelName).resetFrequency
        reached == { counters[k].counter : k \in
                        { j \in DOMAIN counters :
                            /\ j[1] = tenantPrefix /\ j[2] = modelName
                            /\ SamePeriod(frequency, counters[j].lastUsed, t, tz) } }
    IN  IF reached = {} THEN 1 ELSE MaxOf(reached) + 1

\* C19: the first call made after the server's clock has crossed the
\* boundary of the period (day, month, year) returns counter 1, the calls
\* made within one period continue the sequence, and with NEVER the
\* sequence is never restarted.
C19_ResetAtBoundary ==
    [][\A c \in Callers :
          (calls[c].pc = "update" /\ calls'[c].pc = "render") =>
              calls'[c].counter =
                  ExpectedCounter(calls[c].tenant, calls[c].model, calls[c].lastUsed)]_vars

-----------------------------------------------------------------------------
(* The persisted identifier configuration: specifications and properties *)

MaxCfgClock == 24

InitD ==
    /\ IdlePrefix /\ IdleAuth /\ IdleTenant /\ IdleFactory /\ IdleDoc
    /\ now = CounterStartHour /\ tz = 0 /\ configs = <<>> /\ counters = <<>>
    /\ calls = <<>> /\ log = <<>> /\ ncalls = 0
    /\ InitCfg

notCfgVars == <<prefixVars, tz, configs, counters, calls, log, ncalls, authVars,
                tenantVars, factoryVars, docVars>>

NextConfig ==
    \/ /\ \E c \in Callers, t \in CfgTenants, m \in CfgModels :
              getConfigStart(c, "getConfig", t, m)
       /\ UNCHANGED <<now, notCfgVars>>
    \/ /\ \E c \in Callers : loadFromDatabase(c)
       /\ UNCHANGED <<now, notCfgVars>>
    \/ /\ \E c \in Callers : getConfigEnd(c)
       /\ UNCHANGED <<now, notCfgVars>>
    \/ /\ \E c \in Callers, t \in CfgTenants, m \in CfgModels, ch \in ConfigChanges :
              setModelConfigStart(c, t, m, ch)
       /\ UNCHANGED <<now, notCfgVars>>
    \/ /\ \E c \in Callers, t \in CfgTenants, n \in TemplateNames :
              applyTemplateStart(c, t, n)
       /\ UNCHANGED <<now, notCfgVars>>
    \/ /\ \E c \in Callers : writeFind(c)
       /\ UNCHANGED <<now, notCfgVars>>
    \/ /\ \E c \in Callers : writeSave(c)
       /\ UNCHANGED <<now, notCfgVars>>
    \/ /\ \E c \in Callers : writeEnd(c)
       /\ UNCHANGED <<now, notCfgVars>>
    \/ /\ TickHour(MaxCfgClock)
       /\ UNCHANGED <<cfgVars, notCfgVars>>

SpecConfig == InitD /\ [][NextConfig]_vars

\* C17: a getConfig that runs after a write of the tenant's configuration
\* has completed, and overlaps no write, returns the configuration that is
\* persisted; and what the cache serves was stored at most cacheTimeout ago.
C17_ReadsSeeCompletedWrites ==
    /\ cfgRes.clean => cfgRes.config = cfgRes.persisted
    /\ cfgRes.age <= cacheTimeout

\* Identifiers generated from the persisted configuration, on a server
\* whose timezone is UTC
InitG ==
    /\ IdlePrefix /\ IdleAuth /\ IdleTenant /\ IdleFactory /\ IdleDoc
    /\ now = CounterStartHour /\ tz = 0 /\ configs = <<>> /\ counters = <<>>
    /\ calls = [c \in Callers |-> IdleCall] /\ log = <<>> /\ ncalls = 0
    /\ InitCfg

notGenerateVars == <<prefixVars, authVars, tenantVars, factoryVars, docVars>>

NextGenerate ==
    \/ /\ \E c \in Callers, t \in CfgTenants, m \in CfgModels :
              getConfigStart(c, "generate", t, m)
       /\ UNCHANGED <<counterVars, notGenerateVars>>
    \/ /\ \E c \in Callers : loadFromDatabase(c)
       /\ UNCHANGED <<counterVars, notGenerateVars>>
    \/ /\ \E c \in Callers : getConfigEnd(c)
       /\ UNCHANGED <<counterVars, notGenerateVars>>
    \/ /\ \E c \in Callers : generateCounter(c)
       /\ UNCHANGED notGenerateVars
    \/ /\ \E c \in Callers : cfgCalls[c].pc = "counting" /\ getNextIdentifierUpdate(c)
       /\ UNCHANGED <<cfgVars, notGenerateVars>>
    \/ /\ \E c \in Callers : generateFormat(c)
       /\ UNCHANGED notGenerateVars
    \/ /\ \E c \in Callers, t \in CfgTenants, n \in TemplateNames :
              applyTemplateStart(c, t, n)
       /\ UNCHANGED <<counterVars, notGenerateVars>>
    \/ /\ \E c \in Callers : writeFind(c)
       /\ UNCHANGED <<counterVars, notGenerateVars>>
    \/ /\ \E c \in Callers : writeSave(c)
       /\ UNCHANGED <<counterVars, notGenerateVars>>
    \/ /\ \E c \in Callers : writeEnd(c)
       /\ UNCHANGED <<counterVars, notGenerateVars>>
    \/ /\ TickHour(MaxCounterClock)
       /\ UNCHANGED <<tz, configs, counters, calls, log, ncalls>>
       /\ UNCHANGED <<cfgVars, notGenerateVars>>

SpecGenerate == InitG /\ [][NextGenerate]_vars

\* C18: the identifiers generateIdentifier makes for a tenant and an entity
\* type from a configuration with reset frequency R carry a counter that is
\* not restarted within a period of R; with NEVER the counter is never
\* restarted, so no identifier is made twice, whatever the days.  (Calls
\* during which the clock does not move on.)
C18_CounterFollowsPersistedFrequency ==
    \A i, j \in DOMAIN issued :
        ( /\ i < j
          /\ issued[i].at = issued[i].done /\ issued[j].at = issued[j].done
          /\ issued[i].tenant = issued[j].tenant
          /\ issued[i].model = issued[j].model
          /\ issued[i].frequency = issued[j].frequency
          /\ SamePeriod(issued[i].frequency, issued[i].at, issued[j].at, tz) )
        => /\ issued[i].counter # issued[j].counter
           /\ issued[i].identifier # issued[j].identifier

-----------------------------------------------------------------------------
(* HTTP answers of the authentication endpoints: controllers/auth.controller *)

EmailValid == <<"l", "a", "b", "@", "a", "p", "o", "l", "l", "o", ".", "i", "n">>
EmailMalformed == <<"l", "a", "b", ".", "a", "p", "o", "l", "l", "o", ".", "i", "n">>
PhoneValid == <<"9", "8", "7", "6", "5", "4", "3", "2", "1", "0">>
PhoneMalformed == <<"1", "2", "3", "4", "5">>

\* The bodies of POST /auth/login; NoString and "" stand for a missing field
LoginBodies ==
    [email : {NoString, EmailValid, EmailMalformed},
     phone : {NoString, PhoneValid, PhoneMalformed},
     password : {"", "secret"}]

\* /^[^\s@]+@[^\s@]+\.[^\s@]+$/.test(email)
emailFormat(email) ==
    \E i, j \in 1..Len(email) :
        /\ 1 < i /\ i + 1 < j /\ j < Len(email)
        /\ email[i] = "@" /\ email[j] = "."
        /\ \A k \in 1..Len(email) :
               /\ k # i => email[k] # "@"
               /\ email[k] \notin {" ", "\t", "\n"}

\* /^[6-9]\d{9}$/.test(phone)
phoneFormat(phone) ==
    /\ Len(phone) = 10
    /\ phone[1] \in {"6", "7", "8", "9"}
    /\ \A k \in 1..Len(phone) :
           phone[k] \in {"0", "1", "2", "3", "4", "5", "6", "7", "8", "9"}

\* The checks PathoSaathiAuthController.login makes before it calls
\* AuthService.login: the message of the first that fails, "" if none does.
loginValidation(body) ==
    IF body.password = "" THEN "Password is required"
    ELSE IF body.email = NoString /\ body.phone = NoString
    THEN "Email or phone number is required"
    ELSE IF body.email # NoString /\ ~emailFormat(body.email)
    THEN "Invalid email format"
    ELSE IF body.phone # NoString /\ ~phoneFormat(body.phone)
    THEN "Invalid Indian phone number format"
    ELSE ""

\* ApiResponse.validationError(res, message): httpStatus.UNPROCESSABLE_ENTITY
validationError(op) ==
    Outcome(op, None, NoString, "", BadToken, 422, "VALIDATION_ERROR", NoTokens)

\* PathoSaathiAuthController.login for a body it rejects; the bodies it
\* accepts go on to AuthService.login.
LoginRejected(body) ==
    /\ loginValidation(body) # ""
    /\ res' = validationError("login")
    /\ UNCHANGED <<dbUser, user, partnerActive, tokens, nextSession, now>>

NextH ==
    \/ LoginRequest /\ UNCHANGED <<prefixVars, tz, configs, counters, calls, log, ncalls, extVars>>
    \/ /\ \E body \in LoginBodies : LoginRejected(body)
       /\ UNCHANGED <<prefixVars, tz, configs, counters, calls, log, ncalls, extVars>>
    \/ TokenRequest /\ UNCHANGED <<prefixVars, tz, configs, counters, calls, log, ncalls, extVars>>
    \/ Administration /\ UNCHANGED <<prefixVars, tz, configs, counters, calls, log, ncalls, extVars>>

SpecHttp == InitA /\ [][NextH]_vars

ValidationFailures == {"VALIDATION_ERROR"}
AuthenticationFailures ==
    {"INVALID_CREDENTIALS", "ACCOUNT_LOCKED", "ACCOUNT_INACTIVE", "TOKEN_INVALID",
     "DOMAIN_MISMATCH"}

\* C20: every failure is answered with the status of its kind: a
\* validation failure with 400, an authentication failure (bad credentials,
\* locked or inactive account, invalid token, domain mismatch) with 401.
C20_StatusByErrorKind ==
    /\ res.code \in ValidationFailures => res.status = 400
    /\ res.code \in AuthenticationFailures => res.status = 401

-----------------------------------------------------------------------------
(* Saves of a partner document *)

InitS ==
    /\ IdlePrefix /\ IdleCounter /\ now = StartHour /\ IdleAuth
    /\ IdleTenant /\ IdleFactory /\ IdleCfg /\ InitDoc /\ logins = <<>> /\ IdleCreate
    /\ IdleBrand

notDocVars == <<prefixVars, tz, configs, counters, calls, log, ncalls, authVars,
                tenantVars, factoryVars, cfgVars, logins, createVars, brandVars>>

NextSave ==
    \/ /\ \E status \in PAYMENT_STATUSES, type \in PARTNER_TYPES,
             prefix \in IdentifierPrefixes : savePartner(status, type, prefix)
       /\ UNCHANGED <<now, notDocVars>>
    \/ /\ TickHour(MaxSaveClock)
       /\ UNCHANGED <<notDocVars, saveVars>>

SpecSave == InitS /\ [][NextSave]_vars

\* The saves after which the partner is PAID
PaidSaves == {i \in 1..Len(saveLog) : saveLog[i].paidStatus = "PAID"}
FirstPaid == CHOOSE i \in PaidSaves : \A j \in PaidSaves : i <= j

\* C21: the first save that makes the partner PAID activates it and sets
\* registrationDate to the time of that save and expiryDate 365 days later;
\* every later save leaves both dates as they are; and before any save as
\* PAID both dates are unset.
C21_DatesSetOnceAtFirstPaid ==
    \A i \in 1..Len(saveLog) :
        IF PaidSaves = {} \/ i < FirstPaid
        THEN saveLog[i].registrationDate = NoDate /\ saveLog[i].expiryDate = NoDate
        ELSE /\ saveLog[i].registrationDate = saveLog[FirstPaid].at
             /\ saveLog[i].expiryDate
                    = saveLog[FirstPaid].at + RegistrationDays * HoursPerDay
             /\ saveLog[FirstPaid].isActive

\* The partner became PAID, left PAID and became PAID again an hour or more later
C21_Witness ==
    \E i, j, k \in 1..Len(saveLog) :
        /\ i < j /\ j < k
        /\ saveLog[i].paidStatus = "PAID" /\ saveLog[j].paidStatus # "PAID"
        /\ saveLog[k].paidStatus = "PAID" /\ saveLog[k].at > saveLog[i].at

\* IdentifierConfigManager.getConfig, reading the DEFAULT_IDENTIFIER_CONFIG
\* object as it is now
getConfigNow(defaults, cfgs, tenantPrefix, modelName) ==
    IF tenantPrefix \in DOMAIN cfgs /\ modelName \in DOMAIN cfgs[tenantPrefix]
    THEN cfgs[tenantPrefix][modelName]
    ELSE IF modelName \in DOMAIN defaults
         THEN defaults[modelName]
         ELSE defaults[ModelUser]

\* C27: a save of the partner document leaves the configuration that
\* IdentifierConfigManager.getConfig returns as it was, for the root tenant
\* and for every partner tenant and every entity type, so identifiers keep
\* their prefix.
C27_SaveLeavesConfig ==
    [][\A t \in CounterTenants, m \in CounterModels \cup {ModelPatient} :
          getConfigNow(defaultConfig', configs', t, m)
              = getConfigNow(defaultConfig, configs, t, m)]_vars

-----------------------------------------------------------------------------
(* Logins of one user processed concurrently: services/auth.service.ts *)

IdleLogin == [pc |-> "idle", doc |-> NewUser]

\* AuthService.login up to the result of comparePassword, for a wrong
\* password: User.findOne reads the document, the checks run on that copy
loginFind(c, u, password, domain) ==
    LET Missing(code) == Outcome("login", u, domain, password, BadToken, 401, code, NoTokens)
        Fail(code) == Found(Missing(code), user)
    IN  /\ logins[c].pc = "idle"
        /\ ~comparePassword(password)
        /\ IF userMissing(u)
           THEN res' = Missing("INVALID_CREDENTIALS") /\ UNCHANGED logins
           ELSE IF ~user.isActive
           THEN res' = Fail("ACCOUNT_INACTIVE") /\ UNCHANGED logins
           ELSE IF isLocked(user, now)
           THEN res' = Fail("ACCOUNT_LOCKED") /\ UNCHANGED logins
           ELSE /\ logins' = [logins EXCEPT ![c] = [pc |-> "increment", doc |-> user]]
                /\ res' = Found(Outcome("find", u, domain, password, BadToken, 0, "",
                                        NoTokens), user)
        /\ UNCHANGED <<dbUser, user, partnerActive, tokens, nextSession, now>>

\* await user.incrementLoginAttempts(); throw INVALID_CREDENTIALS: the update
\* is computed from the copy the request read and applied to the stored document
loginIncrement(c) ==
    /\ logins[c].pc = "increment"
    /\ user' = incrementLoginAttempts(user, logins[c].doc, now)
    /\ res' = Found(Outcome("login", dbUser, NoString, "wrong", BadToken, 401,
                            "INVALID_CREDENTIALS", NoTokens), logins[c].doc)
    /\ logins' = [logins EXCEPT ![c] = IdleLogin]
    /\ UNCHANGED <<dbUser, partnerActive, tokens, nextSession, now>>

InitRace ==
    /\ IdlePrefix /\ IdleCounter /\ InitAuth
    /\ IdleTenant /\ IdleFactory /\ IdleCfg /\ IdleSave /\ IdleCreate /\ IdleBrand
    /\ logins = [c \in Callers |-> IdleLogin]

notAuthVars == <<prefixVars, tz, configs, counters, calls, log, ncalls,
                 tenantVars, factoryVars, cfgVars, saveVars, createVars, brandVars>>

NextRace ==
    \/ /\ \E c \in Callers, u \in {dbUser, UnknownUser} :
              loginFind(c, u, "wrong", HostApp)
       /\ UNCHANGED notAuthVars
    \/ /\ \E c \in Callers : loginIncrement(c)
       /\ UNCHANGED notAuthVars
    \/ /\ Login(dbUser, StoredPassword, HostApp, "10.0.0.7")
       /\ UNCHANGED <<notAuthVars, logins>>
    \/ /\ ClockA
       /\ UNCHANGED <<notAuthVars, logins>>

SpecRace == InitRace /\ [][NextRace]_vars

\* C22: a stored user with five or more login attempts has lockUntil set,
\* also when wrong-password logins of that user overlap.
C22_FiveAttemptsLocked ==
    user.loginAttempts >= maxAttempts => user.lockUntil # NoDate

-----------------------------------------------------------------------------
(* Reserved labels *)

\* C23: a hostname outside the main allowlist whose leftmost label is
\* reserved (www, app, admin, api) and which is no partner's customDomain is
\* resolved to ROOT / not main, never to the partner that holds that label
\* as its subdomain.
C23_ReservedLabelNotResolved ==
    (/\ tenantReq.pc = "done"
     /\ ~tenantIsMainDomain(tenantReq.hostname)
     /\ FirstPart(tenantReq.hostname) \in {LabelWww, LabelApp, LabelAdmin, LabelApi}
     /\ \A p \in TenantPartnerIds :
            TenantPartners[p].customDomain # tenantReq.hostname)
        => tenantReq.tenant = RootTenant(FALSE)

-----------------------------------------------------------------------------
(* Clearing one tenant's cached handles *)

\* The cached handles of tenant t: the keys tenantPrefix_modelName of t
TenantHandles(t) ==
    {c \in cachedModels :
        \E m \in {ModelUser, ModelLab, ModelPartner} : c.key = t \o <<"_">> \o m}

\* A step that is clearTenantCache(t) and no other operation of the factory
OnlyClearOf(t) ==
    /\ clearTenantCache(t)
    /\ ~clearAllCache
    /\ \A other \in FactoryTenants \ {t} : ~clearTenantCache(other)

\* C24: clearTenantCache(t) removes the cached handles of tenant t and no
\* handle of any other tenant, also when t is a leading substring of
\* another tenant's prefix.
C24_ClearsOnlyThatTenant ==
    [][\A t \in FactoryTenants :
          OnlyClearOf(t) => cachedModels' = cachedModels \ TenantHandles(t)]_vars

-----------------------------------------------------------------------------
(* Identifiers across date boundaries and server timezones *)

\* The calls of getNextIdentifier that have returned
Returned == {i \in 1..Len(log) : log[i].kind = "next" /\ log[i].identifier # ""}

\* C25: under the built-in default configurations the identifiers that
\* getNextIdentifier returns for one tenant and entity type are pairwise
\* distinct, whatever the server's timezone and however the clock advances.
C25_IdentifiersDistinct ==
    \A i, j \in Returned :
        (/\ i # j
         /\ log[i].key[1] = log[j].key[1]
         /\ log[i].key[2] = log[j].key[2])
            => log[i].identifier # log[j].identifier

-----------------------------------------------------------------------------
(* Documents created through tenant handles: models/base.model.ts *)

\* createTenantModel, before mongoose.model: the tenantPrefix path is added
\* to the schema, with the caller's tenant as default, unless the schema has
\* the path already.  The schema object is the one every tenant's model of
\* that entity type is compiled from.
schemaAdd(defaults, tenantPrefix, modelName) ==
    IF defaults[modelName] = NoString
    THEN [defaults EXCEPT ![modelName] = tenantPrefix]
    ELSE defaults

\* ModelFactory's getter runs createTenantModel: on a cache miss, when
\* mongoose has no model of the collection name
createsModel(tenantPrefix, modelName) ==
    /\ ~\E c \in cachedModels : c.key = tenantPrefix \o <<"_">> \o modelName
    /\ ~registered(mongooseModels, getTenantCollectionName(tenantPrefix, modelName))

\* ModelFactory.getUserModel(tenantPrefix), the schema included
getUserModelOf(tenantPrefix) ==
    /\ getUserModel(tenantPrefix)
    /\ schemaDefaults' = IF createsModel(tenantPrefix, ModelUser)
                         THEN schemaAdd(schemaDefaults, tenantPrefix, ModelUser)
                         ELSE schemaDefaults
    /\ UNCHANGED created

\* new User({...}) through the handle of tenantPrefix, without a tenantPrefix
\* of its own, then save(): the document takes the schema's default, and the
\* pre-save hook asks getNextIdentifier(this.tenantPrefix, "User")
createDocument(c, tenantPrefix) ==
    /\ \E h \in handed : h.tenantPrefix = tenantPrefix /\ h.modelName = ModelUser
    /\ LET stamped == schemaDefaults[ModelUser]
       IN  /\ getNextIdentifierStart(c, stamped, ModelUser)
           /\ created' = Append(created, [handle |-> tenantPrefix,
                                          tenantPrefix |-> stamped,
                                          counterOf |-> stamped])
    /\ UNCHANGED schemaDefaults

InitCreate ==
    /\ IdlePrefix /\ InitCounter /\ IdleAuth
    /\ IdleTenant /\ InitFactory /\ IdleCfg /\ IdleSave /\ logins = <<>>
    /\ IdleCreate /\ IdleBrand

notCreateVars == <<prefixVars, authVars, tenantVars, cfgVars, saveVars, logins,
                   brandVars>>

NextCreate ==
    \/ /\ \E t \in FactoryTenants : getUserModelOf(t)
       /\ UNCHANGED <<notCreateVars, counterVars>>
    \/ /\ \E c \in Callers, t \in FactoryTenants : createDocument(c, t)
       /\ UNCHANGED <<notCreateVars, factoryVars>>
    \/ /\ \E c \in Callers : getNextIdentifierUpdate(c)
       /\ UNCHANGED <<notCreateVars, factoryVars, createVars>>
    \/ /\ \E c \in Callers : getNextIdentifierReturn(c)
       /\ UNCHANGED <<notCreateVars, factoryVars, createVars>>

SpecCreate == InitCreate /\ [][NextCreate]_vars

\* C26: a document created through the handle of tenant t without a
\* tenantPrefix of its own is stamped with tenantPrefix t and takes its
\* identifier from the counter collection of t, whichever tenant's handle
\* was created first.
C26_StampedWithHandleTenant ==
    \A i \in 1..Len(created) :
        /\ created[i].tenantPrefix = created[i].handle
        /\ created[i].counterOf = created[i].handle

-----------------------------------------------------------------------------
(* The tenant prefix in tokens and the tenant prefix of the model router *)

\* C28: the tenantPrefix claim of a non-root user who has a partner is the
\* prefix under which the model router keeps that partner's collections:
\* generatePartnerTenantPrefix(companyName, partnerId).
C28_TokenPrefixIsRouterPrefix ==
    \A token \in tokens :
        (~token.isRootUser /\ token.partner # None)
            => token.tenantPrefix
                   = generatePartnerTenantPrefix(Partners[token.partner].companyName,
                                                 Partners[token.partner]._id)

-----------------------------------------------------------------------------
(* Branding of partners: services/branding.service.ts, models/branding.model.ts *)

BrandPartners == {"P_ROOT", "P_A", "P_B"}
NoBranding == 0        \* Partner.branding is not set
SeedBranding == 1      \* the id of the Branding document the seed script creates
MaxBrandings == 3      \* Branding documents, the seeded one included

\* The brandingData a caller passes: a name, a theme reference or none, and
\* metadata or none (of metadata only the isDefault key is told apart)
BrandingData ==
    [name : {"Aqua", "Coral"}, theme : {None, "T1"},
     metadata : {None, "own", "default"}]

\* Object.assign(brandingDoc, brandingData): the keys the data has
assignBranding(doc, data) ==
    [name |-> data.name,
     theme |-> IF data.theme # None THEN data.theme ELSE doc.theme,
     metadata |-> IF data.metadata # None THEN data.metadata ELSE doc.metadata]

\* new Branding({...brandingData, partner, isActive: true, isDefault: false}):
\* partner and isDefault are not paths of the schema; metadata defaults to {}
newBranding(data) ==
    [name |-> data.name, theme |-> data.theme,
     metadata |-> IF data.metadata # None THEN data.metadata ELSE "own"]

\* brandingSchema: theme is required, validated by save()
validBranding(doc) == doc.theme # None

\* BrandingService.updatePartnerBranding(partnerId, brandingData); a call
\* that throws changes nothing and is no step
updatePartnerBranding(partnerId, brandingData) ==
    LET id == partnerBranding[partnerId]
        fresh == Cardinality(DOMAIN brandings) + 1
    IN  IF id # NoBranding
        THEN /\ id \in DOMAIN brandings
             /\ brandings' = [brandings EXCEPT ![id] = assignBranding(@, brandingData)]
             /\ UNCHANGED partnerBranding
        ELSE /\ fresh <= MaxBrandings
             /\ validBranding(newBranding(brandingData))
             /\ brandings' = brandings @@ (fresh :> newBranding(brandingData))
             /\ partnerBranding' = [partnerBranding EXCEPT ![partnerId] = fresh]

\* BrandingService.resetPartnerBrandingToDefault(partnerId):
\* Branding.findOne({"metadata.isDefault": true}) returns one of the matching
\* documents; without one, createDefaultBranding saves a document that has no
\* theme, save() rejects it and the call throws
resetPartnerBrandingToDefault(partnerId) ==
    /\ \E id \in DOMAIN brandings :
          /\ brandings[id].metadata = "default"
          /\ partnerBranding' = [partnerBranding EXCEPT ![partnerId] = id]
    /\ UNCHANGED brandings

\* The branding a request of partner p's tenant is served: the partner's
\* document or, without one, the built-in default
ResolvedBranding(docs, refs, p) ==
    IF refs[p] # NoBranding /\ refs[p] \in DOMAIN docs
    THEN [name |-> docs[refs[p]].name, metadata |-> docs[refs[p]].metadata]
    ELSE [name |-> "PathoSaathi", metadata |-> "built-in"]

\* After the seed script: the platform's own partner refers to the seeded
\* document, the other partners have no branding
InitBrand ==
    /\ brandings = (SeedBranding :> [name |-> "PathoSaathi Branding", theme |-> "T1",
                                     metadata |-> "own"])
    /\ partnerBranding = [p \in BrandPartners |->
                             IF p = "P_ROOT" THEN SeedBranding ELSE NoBranding]

InitB ==
    /\ IdlePrefix /\ IdleCounter /\ now = StartHour /\ IdleAuth
    /\ IdleTenant /\ IdleFactory /\ IdleCfg /\ IdleSave /\ logins = <<>>
    /\ IdleCreate /\ InitBrand

notBrandVars == <<prefixVars, counterVars, authVars, tenantVars, factoryVars,
                  cfgVars, saveVars, logins, createVars>>

NextBrand ==
    \/ /\ \E p \in BrandPartners, data \in BrandingData : updatePartnerBranding(p, data)
       /\ UNCHANGED notBrandVars
    \/ /\ \E p \in BrandPartners : resetPartnerBrandingToDefault(p)
       /\ UNCHANGED notBrandVars

SpecBrand == InitB /\ [][NextBrand]_vars

-----------------------------------------------------------------------------
(* Token roles *)

\* The request was answered by AuthService.refreshToken with a new token pair
RefreshIssued == res.op = "refresh" /\ res.issued

\* The request passed PathoSaathiAuthMiddleware.authenticate
BearerAccepted == res.op = "authenticate" /\ res.code = "NEXT"

\* C30: a token is usable only in the role it was minted for: refreshToken
\* issues a new pair only for a token with tokenType "refresh", and the
\* authenticate middleware never accepts a token with tokenType "refresh"
\* as a bearer credential.
C30_TokenUsableOnlyInItsRole ==
    /\ RefreshIssued => res.presented.tokenType = "refresh"
    /\ BearerAccepted => res.presented.tokenType # "refresh"

\* C30, the two halves on their own
C30_RefreshOnlyForRefreshToken == RefreshIssued => res.presented.tokenType = "refresh"

C30_BearerOnlyAccessToken == BearerAccepted => res.presented.tokenType # "refresh"

=============================================================================
